---- MODULE Spec2Model ----
(***************************************************************************)
(* A model of the typed persistence layer of shelby: typed identifiers     *)
(* (PrimaryKey<T>), schema creation through the Dependency resolver,       *)
(* insert/select through the entity traits, and the pagination descriptor. *)
(* Text is modelled as a sequence of one-character strings so that         *)
(* formatting, splitting and parsing are computed the way the code does.   *)
(***************************************************************************)
EXTENDS Integers, Sequences, FiniteSets, TLC

(***************************************************************************)
(* Bounds of the model.                                                    *)
(***************************************************************************)
\* identifiers -MaxKeyId..MaxKeyId are drawn as keys and as text segments
MaxKeyId == 1
\* caller-supplied texts have at most MaxParts '/'-separated segments
MaxParts == 3

(***************************************************************************)
(* Entity types and their table names.                                     *)
(***************************************************************************)
Entities ==
    {"Person", "Group", "User", "Document", "Category", "Account", "CostCenter", "Entry"}

TABLE_NAME(E) ==
    CASE E = "Person" -> <<"p", "e", "r", "s", "o", "n", "s">>
      [] E = "Group" -> <<"g", "r", "o", "u", "p", "s">>
      [] E = "User" -> <<"u", "s", "e", "r", "s">>
      [] E = "Document" -> <<"d", "o", "c", "u", "m", "e", "n", "t", "s">>
      [] E = "Category" -> <<"c", "a", "t", "e", "g", "o", "r", "i", "e", "s">>
      [] E = "Account" -> <<"a", "c", "c", "o", "u", "n", "t", "s">>
      [] E = "CostCenter" -> <<"c", "o", "s", "t", "_", "c", "e", "n", "t", "e", "r", "s">>
      [] E = "Entry" -> <<"e", "n", "t", "r", "i", "e", "s">>
      [] E = "Membership" -> <<"m", "e", "m", "b", "e", "r", "s", "h", "i", "p", "s">>

(***************************************************************************)
(* Integers as text: i64's Display and FromStr.                            *)
(***************************************************************************)
Digits == <<"0", "1", "2", "3", "4", "5", "6", "7", "8", "9">>

IsDigit(c) == \E d \in 1..10 : Digits[d] = c

DigitVal(c) == (CHOOSE d \in 1..10 : Digits[d] = c) - 1

\* the decimal digits of i64::MAX and of the magnitude of i64::MIN
I64MaxDigits ==
    <<"9", "2", "2", "3", "3", "7", "2", "0", "3", "6", "8", "5", "4", "7", "7", "5", "8", "0", "7">>

I64MinDigits ==
    <<"9", "2", "2", "3", "3", "7", "2", "0", "3", "6", "8", "5", "4", "7", "7", "5", "8", "0", "8">>

RECURSIVE NatToStr(_)
NatToStr(n) ==
    IF n < 10 THEN <<Digits[n + 1]>>
    ELSE NatToStr(n \div 10) \o <<Digits[(n % 10) + 1]>>

\* Display for i64
IntToStr(n) == IF n < 0 THEN <<"-">> \o NatToStr(-n) ELSE NatToStr(n)

RECURSIVE StripZeros(_)
StripZeros(ds) ==
    IF Len(ds) > 1 /\ ds[1] = "0" THEN StripZeros(Tail(ds)) ELSE ds

\* a > b for two digit strings without leading zeros
RECURSIVE LexGreater(_, _)
LexGreater(a, b) ==
    IF a = <<>> THEN FALSE
    ELSE IF DigitVal(a[1]) # DigitVal(b[1]) THEN DigitVal(a[1]) > DigitVal(b[1])
    ELSE LexGreater(Tail(a), Tail(b))

MagGreater(a, b) ==
    IF Len(a) # Len(b) THEN Len(a) > Len(b) ELSE LexGreater(a, b)

RECURSIVE DigitsToNat(_, _)
DigitsToNat(ds, acc) ==
    IF ds = <<>> THEN acc ELSE DigitsToNat(Tail(ds), acc * 10 + DigitVal(ds[1]))

IntOk(n) == [ok |-> TRUE, val |-> n]

IntErr(kind) == [ok |-> FALSE, kind |-> kind]

\* str::parse::<i64>: an optional sign, then at least one digit, nothing else
ParseI64(s) ==
    IF s = <<>> THEN IntErr("Empty")
    ELSE LET neg == s[1] = "-"
             ds == IF s[1] \in {"-", "+"} THEN Tail(s) ELSE s
         IN  IF ds = <<>> \/ \E i \in 1..Len(ds) : ~IsDigit(ds[i])
             THEN IntErr("InvalidDigit")
             ELSE LET mag == StripZeros(ds)
                  IN  IF ~neg /\ MagGreater(mag, I64MaxDigits) THEN IntErr("PosOverflow")
                      ELSE IF neg /\ MagGreater(mag, I64MinDigits) THEN IntErr("NegOverflow")
                      ELSE IntOk(IF neg THEN -DigitsToNat(mag, 0) ELSE DigitsToNat(mag, 0))

(***************************************************************************)
(* str::split                                                              *)
(***************************************************************************)
RECURSIVE SplitFrom(_, _, _)
SplitFrom(s, sep, cur) ==
    IF s = <<>> THEN <<cur>>
    ELSE IF s[1] = sep THEN <<cur>> \o SplitFrom(Tail(s), sep, <<>>)
    ELSE SplitFrom(Tail(s), sep, Append(cur, s[1]))

Split(s, sep) == SplitFrom(s, sep, <<>>)

(***************************************************************************)
(* PrimaryKey<T>                                                           *)
(***************************************************************************)
\* PrimaryKey::<T>::from(value): the phantom type T and the raw index
PrimaryKeyFrom(T, value) == [table |-> T, id |-> value]

\* Display: "/{}/{}" of T::TABLE_NAME and the raw index
to_string_NoLeadingSlash(k) == TABLE_NAME(k.table) \o <<"/">> \o IntToStr(k.id)

to_string(k) == <<"/">> \o TABLE_NAME(k.table) \o <<"/">> \o IntToStr(k.id)

KeyOk(k) == [ok |-> TRUE, key |-> k]

KeyErr(e, inner) == [ok |-> FALSE, err |-> e, inner |-> inner]

\* FromStr for PrimaryKey<T>
FromStr_NoTableCheck(T, s) ==
    LET bare == ParseI64(s)
    IN  IF bare.ok THEN KeyOk(PrimaryKeyFrom(T, bare.val))
        ELSE LET parts == Split(s, "/")
             IN  IF Len(parts) # 3 THEN KeyErr("InvalidFormat", "none")
                 ELSE LET id == ParseI64(parts[3])
                      IN  IF id.ok THEN KeyOk(PrimaryKeyFrom(T, id.val))
                          ELSE KeyErr("ParseIntError", id.kind)

FromStr_IdFirst(T, s) ==
    LET bare == ParseI64(s)
    IN  IF bare.ok THEN KeyOk(PrimaryKeyFrom(T, bare.val))
        ELSE LET parts == Split(s, "/")
             IN  IF Len(parts) # 3 THEN KeyErr("InvalidFormat", "none")
                 ELSE LET id == ParseI64(parts[3])
                      IN  IF ~id.ok THEN KeyErr("ParseIntError", id.kind)
                          ELSE IF parts[2] # TABLE_NAME(T)
                               THEN KeyErr("TableNameMismatch", "none")
                               ELSE KeyOk(PrimaryKeyFrom(T, id.val))

FromStr(T, s) ==
    LET bare == ParseI64(s)
    IN  IF bare.ok THEN KeyOk(PrimaryKeyFrom(T, bare.val))
        ELSE LET parts == Split(s, "/")
             IN  IF Len(parts) # 3 THEN KeyErr("InvalidFormat", "none")
                 ELSE IF parts[2] # TABLE_NAME(T) THEN KeyErr("TableNameMismatch", "none")
                 ELSE LET id == ParseI64(parts[3])
                      IN  IF id.ok THEN KeyOk(PrimaryKeyFrom(T, id.val))
                          ELSE KeyErr("ParseIntError", id.kind)

\* Display for ParseError
ParseErrorToString(r) ==
    CASE r.err = "InvalidFormat" -> "Invalid format"
      [] r.err = "TableNameMismatch" -> "Table name mismatch"
      [] r.err = "ParseIntError" -> "Parse int error"

\* Serialize: serializer.serialize_str(&self.to_string())
Serialize_Int(k) == [kind |-> "i64", val |-> k.id]

Serialize(k) == [kind |-> "str", text |-> to_string(k)]

\* PrimaryKeyVisitor::visit_i64
visit_i64(T, primary_key) == KeyOk(PrimaryKeyFrom(T, primary_key))

\* PrimaryKeyVisitor::visit_borrowed_str
visit_borrowed_str_Lenient(T, v) ==
    LET r == FromStr(T, v)
    IN  IF r.ok THEN r
        ELSE IF r.err = "TableNameMismatch" /\ ParseI64(Split(v, "/")[3]).ok
             THEN KeyOk(PrimaryKeyFrom(T, ParseI64(Split(v, "/")[3]).val))
             ELSE KeyErr("custom", ParseErrorToString(r))

visit_borrowed_str(T, v) ==
    LET r == FromStr(T, v)
    IN  IF r.ok THEN r ELSE KeyErr("custom", ParseErrorToString(r))

\* Deserialize: deserializer.deserialize_str(PrimaryKeyVisitor), the
\* deserializer handing the visitor a borrowed string or an integer
Deserialize(T, w) ==
    IF w.kind = "str" THEN visit_borrowed_str(T, w.text) ELSE visit_i64(T, w.val)

(***************************************************************************)
(* The entity trait system: column types, statements, dependencies.        *)
(***************************************************************************)
\* every type with a table: the indexable entities and the association table
DatabaseEntries == Entities \cup {"Membership"}

\* field types: a base type, Option<..> or not, and the entity a key refers to
Ty(base) == [base |-> base, opt |-> FALSE, ref |-> "none"]

Opt(ty) == [ty EXCEPT !.opt = TRUE]

Pk(E) == [base |-> "PrimaryKey", opt |-> FALSE, ref |-> E]

Field(name, ty) == [name |-> name, ty |-> ty]

\* the fields of the make_struct! invocations, in declaration order
FieldsOf(E) ==
    CASE E = "Person" ->
           <<Field("name", Ty("String")), Field("address", Ty("String")),
             Field("email", Opt(Ty("String"))), Field("birthday", Opt(Ty("Date"))),
             Field("comment", Opt(Ty("String")))>>
      [] E = "Group" -> <<Field("description", Ty("String"))>>
      [] E = "User" ->
           <<Field("username", Ty("String")), Field("password_hash", Ty("PasswordHash")),
             Field("active", Ty("bool")), Field("creation_date", Ty("Date")),
             Field("related_to", Opt(Pk("Person")))>>
      [] E = "Document" ->
           <<Field("document", Ty("Vec<u8>")), Field("processed_by", Pk("User")),
             Field("from_person", Pk("Person")), Field("to_person", Pk("Person")),
             Field("recieved", Ty("Date")), Field("processed", Ty("Date")),
             Field("description", Ty("String"))>>
      [] E = "Category" -> <<Field("description", Ty("String"))>>
      [] E = "Account" ->
           <<Field("code", Ty("u32")), Field("category", Pk("Category")),
             Field("description", Ty("String"))>>
      [] E = "CostCenter" -> <<Field("description", Ty("String"))>>
      [] E = "Entry" ->
           <<Field("evidence", Pk("Document")), Field("account", Pk("Account")),
             Field("cost_center", Pk("CostCenter")), Field("amount", Ty("Amount")),
             Field("description", Ty("String"))>>

\* the declarations, looked up per entity
FIELDS == [E \in Entities |-> FieldsOf(E)]

Fields(E) == FIELDS[E]

FieldNames(E) == {Fields(E)[i].name : i \in 1..Len(Fields(E))}

FieldType(E, name) == Fields(E)[CHOOSE i \in 1..Len(Fields(E)) : Fields(E)[i].name = name].ty

\* DatabaseType::RAW_COLUMN_VALUE
RAW_COLUMN_VALUE_StringColumn(ty) ==
    CASE ty.base = "bool" -> "BOOL"
      [] ty.base = "u32" -> "INTEGER"
      [] ty.base = "String" -> "STRING"
      [] ty.base = "Date" -> "DATETIME"
      [] ty.base = "Vec<u8>" -> "BLOB"
      [] ty.base = "PrimaryKey" -> "INTEGER"
      [] ty.base = "Amount" -> "INTEGER"
      [] ty.base = "PasswordHash" -> "BLOB"

RAW_COLUMN_VALUE(ty) ==
    CASE ty.base = "bool" -> "BOOL"
      [] ty.base = "u32" -> "INTEGER"
      [] ty.base = "String" -> "TEXT"
      [] ty.base = "Date" -> "DATETIME"
      [] ty.base = "Vec<u8>" -> "BLOB"
      [] ty.base = "PrimaryKey" -> "INTEGER"
      [] ty.base = "Amount" -> "INTEGER"
      [] ty.base = "PasswordHash" -> "BLOB"

\* DatabaseType::COLUMN_VALUE: NOT NULL unless the type is an Option
NotNull(ty) == ~ty.opt

\* the foreign keys of the additional conditions of a CREATE TABLE statement
ForeignKeys(E) ==
    CASE E = "User" -> {[col |-> "related_to", ref |-> "Person"]}
      [] E = "Document" ->
           {[col |-> "processed_by", ref |-> "User"], [col |-> "from_person", ref |-> "Person"],
            [col |-> "to_person", ref |-> "Person"]}
      [] OTHER -> {}

\* DatabaseEntry::DependsOn: (), an entity, or a pair of dependencies
DepUnit == [kind |-> "unit"]

DepEntry(E) == [kind |-> "entry", entry |-> E]

DepPair(l, r) == [kind |-> "pair", left |-> l, right |-> r]

\* Entry declares a triple, for which this source has no Dependency
\* implementation; its table is created by the migrations only
DependsOn(E) ==
    CASE E = "Person" -> DepUnit
      [] E = "Group" -> DepUnit
      [] E = "Membership" -> DepPair(DepEntry("Person"), DepEntry("Group"))
      [] E = "User" -> DepEntry("Person")
      [] E = "Document" -> DepPair(DepEntry("Person"), DepEntry("User"))
      [] E = "Category" -> DepUnit
      [] E = "Account" -> DepEntry("Category")
      [] E = "CostCenter" -> DepUnit

Creatable == DatabaseEntries \ {"Entry"}

\* Dependency::create_dependencies: the CREATE TABLE statements in the order
\* in which they are executed
RECURSIVE create_dependencies_OwnFirst(_)
create_dependencies_OwnFirst(dep) ==
    CASE dep.kind = "unit" -> <<>>
      [] dep.kind = "entry" ->
           <<dep.entry>> \o create_dependencies_OwnFirst(DependsOn(dep.entry))
      [] dep.kind = "pair" ->
           create_dependencies_OwnFirst(dep.left) \o create_dependencies_OwnFirst(dep.right)

RECURSIVE create_dependencies_LeftOnly(_)
create_dependencies_LeftOnly(dep) ==
    CASE dep.kind = "unit" -> <<>>
      [] dep.kind = "entry" ->
           create_dependencies_LeftOnly(DependsOn(dep.entry)) \o <<dep.entry>>
      [] dep.kind = "pair" -> create_dependencies_LeftOnly(dep.left)

RECURSIVE create_dependencies(_)
create_dependencies(dep) ==
    CASE dep.kind = "unit" -> <<>>
      [] dep.kind = "entry" -> create_dependencies(DependsOn(dep.entry)) \o <<dep.entry>>
      [] dep.kind = "pair" -> create_dependencies(dep.left) \o create_dependencies(dep.right)

\* executing STATEMENT_CREATE_TABLE, "CREATE TABLE IF NOT EXISTS ...", on a
\* database with the tables tabs
ExecuteCreateTable_NoIfNotExists(tabs, E) ==
    [ok |-> E \notin tabs, tables |-> tabs \cup {E}, created |-> E \notin tabs]

ExecuteCreateTable(tabs, E) ==
    [ok |-> TRUE, tables |-> tabs \cup {E}, created |-> E \notin tabs]

\* the statements run one after the other, the first failure ends the call
RECURSIVE RunCreateStatements(_, _)
RunCreateStatements(stmts, tabs) ==
    IF stmts = <<>> THEN <<>>
    ELSE LET r == ExecuteCreateTable(tabs, Head(stmts))
             entry == [table |-> Head(stmts), created |-> r.created /\ r.ok, ok |-> r.ok]
         IN  IF r.ok THEN <<entry>> \o RunCreateStatements(Tail(stmts), r.tables)
             ELSE <<entry>>

\* the tables the migrations of Database::get_migrations create
MigratedTables == DatabaseEntries

(***************************************************************************)
(* Values and their conversion to and from the store.                      *)
(***************************************************************************)
\* a value of a field or of a column: a class, a number and a text
Val(c, i, t) == [c |-> c, i |-> i, s |-> t]

NoneVal == Val("none", 0, "")

SqlNull == Val("null", 0, "")

\* the texts SQLite converts to a number in a column of numeric affinity
LooksNumeric(t) == t \in {"12"}

NumericValue(t) == CASE t = "12" -> 12

\* the affinity SQLite derives from the declared type of a column
Affinity(declared) ==
    CASE declared = "INTEGER" -> "INTEGER"
      [] declared = "TEXT" -> "TEXT"
      [] declared = "BLOB" -> "BLOB"
      [] OTHER -> "NUMERIC"

\* what a column of the given affinity stores for a bound value
ApplyAffinity(aff, v) ==
    IF aff \in {"INTEGER", "NUMERIC"} /\ v.c = "text" /\ LooksNumeric(v.s)
    THEN Val("integer", NumericValue(v.s), "")
    ELSE v

\* ToSql of the field types
ToSql(ty, v) ==
    IF ty.opt /\ v = NoneVal THEN [ok |-> TRUE, val |-> SqlNull]
    ELSE CASE ty.base = "bool" -> [ok |-> TRUE, val |-> Val("integer", v.i, "")]
           [] ty.base = "u32" -> [ok |-> TRUE, val |-> Val("integer", v.i, "")]
           [] ty.base = "String" -> [ok |-> TRUE, val |-> Val("text", 0, v.s)]
           [] ty.base = "Date" -> [ok |-> TRUE, val |-> Val("text", 0, v.s)]
           [] ty.base = "Vec<u8>" -> [ok |-> TRUE, val |-> Val("blob", 0, v.s)]
           [] ty.base = "PrimaryKey" -> [ok |-> TRUE, val |-> Val("integer", v.i, "")]
           [] ty.base = "Amount" -> [ok |-> TRUE, val |-> Val("integer", v.i, "")]
           [] ty.base = "PasswordHash" ->
                \* invalid hashes are not stored
                IF v.i = 0 THEN [ok |-> FALSE, val |-> SqlNull]
                ELSE [ok |-> TRUE, val |-> Val("blob", 0, v.s)]

Dates == {"2024-01-31", "1999-12-31", "2000-02-29"}

\* FromSql of the field types
FromSql(ty, c) ==
    IF ty.opt /\ c = SqlNull THEN [ok |-> TRUE, val |-> NoneVal]
    ELSE CASE ty.base = "bool" ->
                IF c.c = "integer" THEN [ok |-> TRUE, val |-> Val("bool", IF c.i # 0 THEN 1 ELSE 0, "")]
                ELSE [ok |-> FALSE, val |-> NoneVal]
           [] ty.base = "u32" ->
                IF c.c = "integer" /\ c.i >= 0 THEN [ok |-> TRUE, val |-> Val("u32", c.i, "")]
                ELSE [ok |-> FALSE, val |-> NoneVal]
           [] ty.base = "String" ->
                IF c.c = "text" THEN [ok |-> TRUE, val |-> Val("String", 0, c.s)]
                ELSE [ok |-> FALSE, val |-> NoneVal]
           [] ty.base = "Date" ->
                IF c.c = "text" /\ c.s \in Dates THEN [ok |-> TRUE, val |-> Val("Date", 0, c.s)]
                ELSE [ok |-> FALSE, val |-> NoneVal]
           [] ty.base = "Vec<u8>" ->
                IF c.c = "blob" THEN [ok |-> TRUE, val |-> Val("Vec<u8>", 0, c.s)]
                ELSE [ok |-> FALSE, val |-> NoneVal]
           [] ty.base = "PrimaryKey" ->
                IF c.c = "integer" THEN [ok |-> TRUE, val |-> Val("PrimaryKey", c.i, ty.ref)]
                ELSE [ok |-> FALSE, val |-> NoneVal]
           [] ty.base = "Amount" ->
                IF c.c = "integer" THEN [ok |-> TRUE, val |-> Val("Amount", c.i, "")]
                ELSE [ok |-> FALSE, val |-> NoneVal]
           [] ty.base = "PasswordHash" ->
                IF c.c = "blob" THEN [ok |-> TRUE, val |-> Val("PasswordHash", 1, c.s)]
                ELSE [ok |-> FALSE, val |-> NoneVal]

\* the i-th sample value of a type; of an Option the second sample is None
Sample(ty, i) ==
    IF ty.opt /\ i = 2 THEN NoneVal
    ELSE CASE ty.base = "bool" -> Val("bool", i % 2, "")
           [] ty.base = "u32" -> Val("u32", 7 * (i - 1), "")
           [] ty.base = "String" ->
                Val("String", 0, IF i = 1 THEN "12" ELSE IF i = 2 THEN "abc" ELSE "")
           [] ty.base = "Date" ->
                Val("Date", 0,
                    IF i = 1 THEN "2024-01-31" ELSE IF i = 2 THEN "1999-12-31" ELSE "2000-02-29")
           [] ty.base = "Vec<u8>" -> Val("Vec<u8>", 0, IF i = 1 THEN "" ELSE "%PDF")
           [] ty.base = "PrimaryKey" -> Val("PrimaryKey", i, ty.ref)
           [] ty.base = "Amount" -> Val("Amount", IF i = 2 THEN -50 ELSE 3200 + i, "")
           [] ty.base = "PasswordHash" ->
                \* the third sample is PasswordHash::invalid()
                IF i = 3 THEN Val("PasswordHash", 0, "") ELSE Val("PasswordHash", 1, IF i = 1 THEN "h1" ELSE "h2")

\* two values of every entity type, and a User with an invalid hash
Variants(E) == IF E = "User" THEN {1, 2, 3} ELSE {1, 2}

\* the entities the keys of an entity refer to
References(E) ==
    {Fields(E)[i].ty.ref : i \in {j \in 1..Len(Fields(E)) : Fields(E)[j].ty.base = "PrimaryKey"}}

\* the tables a run on the entity type F works with: its own and the ones
\* its keys refer to; the association table holds no indexable rows
Populated(F) == IF F \in Entities THEN {F} \cup References(F) ELSE {}

\* the values of an entity type that are inserted
EntityValue(E, i) == [f \in FieldNames(E) |-> Sample(FieldType(E, f), i)]

\* Insertable::STATEMENT_INSERT and serialize_sql: the columns and the
\* parameters bound to them, in declaration order
InsertColumns(E) == [i \in 1..Len(Fields(E)) |-> Fields(E)[i].name]

serialize_sql(E, v) == [i \in 1..Len(Fields(E)) |-> ToSql(Fields(E)[i].ty, v[Fields(E)[i].name])]

\* Selectable::STATEMENT_SELECT_ALL: the selected columns
SelectColumns(E) ==
    CASE E = "User" -> <<"id", "username", "active", "creation_date", "related_to">>
      [] E = "Document" ->
           <<"id", "processed_by", "from_person", "to_person", "recieved", "processed",
             "description">>
      [] OTHER -> <<"id">> \o InsertColumns(E)

\* Selectable::SelectValue: the types of the tuple a row is decoded into
SelectValue(E) ==
    CASE E = "User" ->
           <<Pk("User"), Ty("String"), Ty("bool"), Ty("Date"), Opt(Pk("Person"))>>
      [] E = "Document" ->
           <<Pk("Document"), Pk("User"), Pk("Person"), Pk("Person"), Ty("Date"), Ty("Date"),
             Ty("String")>>
      [] OTHER -> <<Pk(E)>> \o [i \in 1..Len(Fields(E)) |-> Fields(E)[i].ty]

\* Selectable::deserialize_sql: the field of the output each tuple position
\* after the identifier goes to
OutputFields(E) ==
    CASE E = "User" -> <<"username", "active", "creation_date", "related_to">>
      [] E = "Document" ->
           <<"processed_by", "from_person", "to_person", "recieved", "processed", "description">>
      [] OTHER -> InsertColumns(E)

deserialize_sql(E, value) ==
    [identifier |-> PrimaryKeyFrom(E, value[1].i),
     value |-> [f \in {OutputFields(E)[i] : i \in 1..Len(OutputFields(E))} |->
                   value[1 + CHOOSE i \in 1..Len(OutputFields(E)) : OutputFields(E)[i] = f]]]

\* Selectable::Output::from(Record<E>): the record itself, or the Metadata of
\* a User or a Document
OutputFrom(E, identifier, v) ==
    [identifier |-> identifier,
     value |-> [f \in {OutputFields(E)[i] : i \in 1..Len(OutputFields(E))} |-> v[f]]]

\* SelectValue::try_from(row): every column decoded by its type
TryFromRow(E, row) ==
    LET cols == [i \in 1..Len(SelectColumns(E)) |-> FromSql(SelectValue(E)[i], row[SelectColumns(E)[i]])]
    IN  IF \A i \in 1..Len(cols) : cols[i].ok
        THEN [ok |-> TRUE, val |-> [i \in 1..Len(cols) |-> cols[i].val]]
        ELSE [ok |-> FALSE, val |-> <<>>]

(***************************************************************************)
(* Inputs of the identifier operations.                                    *)
(***************************************************************************)
KeyIds == (-MaxKeyId..MaxKeyId) \cup {10, -45, 2147483647}

\* I64MinDigits as a segment is a number one above i64::MAX
Segments ==
    {<<>>, TABLE_NAME("Person"), TABLE_NAME("User"), <<"x">>, <<"-">>, <<"0", "0", "7">>,
     <<"+", "3">>, I64MinDigits}
        \cup {IntToStr(n) : n \in -MaxKeyId..MaxKeyId}

RECURSIVE Join(_)
Join(parts) ==
    IF Len(parts) = 1 THEN parts[1] ELSE parts[1] \o <<"/">> \o Join(Tail(parts))

\* texts with more segments than a canonical form has
LongTexts ==
    {Join(<<a, TABLE_NAME("Person"), <<"1">>, b>>) : a, b \in {<<>>, <<"1">>, <<"x">>}}

InputTexts ==
    {Join(p) : p \in UNION {[1..n -> Segments] : n \in 1..MaxParts}} \cup LongTexts

NoKey == [table |-> "none", id |-> 0]

NoText == <<"?">>

NoWire == [kind |-> "none"]

NoParse == [op |-> "none"]

VARIABLES kpc, key, text, wire, parsed

keyVars == <<kpc, key, text, wire, parsed>>

KeyInit ==
    /\ kpc = "idle"
    /\ key = NoKey
    /\ text = NoText
    /\ wire = NoWire
    /\ parsed = NoParse

\* PrimaryKey::from
KeyFrom(T, n) ==
    /\ kpc = "idle"
    /\ key' = PrimaryKeyFrom(T, n)
    /\ kpc' = "key"
    /\ UNCHANGED <<text, wire, parsed>>

\* key.to_string()
KeyToString ==
    /\ kpc = "key"
    /\ text' = to_string(key)
    /\ kpc' = "text"
    /\ UNCHANGED <<key, wire, parsed>>

\* serde: key.serialize(serializer)
KeySerialize ==
    /\ kpc = "key"
    /\ wire' = Serialize(key)
    /\ kpc' = "wire"
    /\ UNCHANGED <<key, text, parsed>>

\* a text supplied by a caller
KeyInput(s) ==
    /\ kpc = "idle"
    /\ text' = s
    /\ kpc' = "text"
    /\ UNCHANGED <<key, wire, parsed>>

\* a value supplied by a deserializer
KeyWireInput(w) ==
    /\ kpc = "idle"
    /\ wire' = w
    /\ kpc' = "wire"
    /\ UNCHANGED <<key, text, parsed>>

\* text.parse::<PrimaryKey<T>>()
KeyFromStr(T) ==
    /\ kpc = "text"
    /\ parsed' = [op |-> "from_str", target |-> T, res |-> FromStr(T, text)]
    /\ kpc' = "parsed"
    /\ UNCHANGED <<key, text, wire>>

\* PrimaryKey::<T>::deserialize(deserializer)
KeyDeserialize(T) ==
    /\ kpc = "wire"
    /\ parsed' = [op |-> "deserialize", target |-> T, res |-> Deserialize(T, wire)]
    /\ kpc' = "parsed"
    /\ UNCHANGED <<key, text, wire>>

KeyReset ==
    /\ kpc = "parsed"
    /\ kpc' = "idle"
    /\ key' = NoKey
    /\ text' = NoText
    /\ wire' = NoWire
    /\ parsed' = NoParse

KeyNext ==
    \/ \E T \in Entities, n \in KeyIds : KeyFrom(T, n)
    \/ KeyToString
    \/ KeySerialize
    \/ kpc = "idle" /\ \E s \in InputTexts : KeyInput(s)
    \/ kpc = "idle" /\ \E s \in InputTexts : KeyWireInput([kind |-> "str", text |-> s])
    \/ \E n \in KeyIds : KeyWireInput([kind |-> "i64", val |-> n])
    \/ \E T \in Entities : KeyFromStr(T)
    \/ \E T \in Entities : KeyDeserialize(T)
    \/ KeyReset

(***************************************************************************)
(* Properties of the typed identifier.                                     *)
(***************************************************************************)
\* the text being parsed was produced by to_string of the key held in `key`
ParsedDisplayedKey == kpc = "parsed" /\ parsed.op = "from_str" /\ key # NoKey

\* C1: parsing the text that to_string produced for a key of entity type E
\* as a PrimaryKey<E> returns Ok of a key equal to the original key.
C1_RoundTrip ==
    (ParsedDisplayedKey /\ parsed.target = key.table) => parsed.res = KeyOk(key)

C1_Witness ==
    /\ ParsedDisplayedKey
    /\ parsed.target = key.table
    /\ key.id < 0
    /\ parsed.res.ok

\* C2: parsing the canonical text of a key of entity type E2 as a
\* PrimaryKey<E1>, where E1 and E2 have different table names, fails with
\* TableNameMismatch and yields no key.
C2_WrongTable ==
    (ParsedDisplayedKey /\ TABLE_NAME(parsed.target) # TABLE_NAME(key.table))
        => parsed.res = KeyErr("TableNameMismatch", "none")

C2_Witness ==
    /\ ParsedDisplayedKey
    /\ key.table = "User"
    /\ parsed.target = "Person"
    /\ ~parsed.res.ok

\* the positions of the '/' characters of a text, and the segments around them
SlashPositions(s) == {i \in 1..Len(s) : s[i] = "/"}

FirstSlash(s) == CHOOSE i \in SlashPositions(s) : \A j \in SlashPositions(s) : i <= j

LastSlash(s) == CHOOSE i \in SlashPositions(s) : \A j \in SlashPositions(s) : j <= i

MiddleSegment(s) == SubSeq(s, FirstSlash(s) + 1, LastSlash(s) - 1)

LastSegment(s) == SubSeq(s, LastSlash(s) + 1, Len(s))

IsInteger(s) == ParseI64(s).ok

ParsedText == kpc = "parsed" /\ parsed.op = "from_str"

\* C3: for a text that is not a bare integer from_str reports InvalidFormat
\* when the text does not consist of exactly three '/'-separated parts,
\* otherwise TableNameMismatch when the middle part is not the table name of
\* the target type, otherwise ParseIntError when the last part is not an
\* integer.
C3_ErrorOrder ==
    (ParsedText /\ ~IsInteger(text)) =>
        IF Cardinality(SlashPositions(text)) # 2
        THEN parsed.res = KeyErr("InvalidFormat", "none")
        ELSE IF MiddleSegment(text) # TABLE_NAME(parsed.target)
        THEN parsed.res = KeyErr("TableNameMismatch", "none")
        ELSE IF ~IsInteger(LastSegment(text))
        THEN ~parsed.res.ok /\ parsed.res.err = "ParseIntError"
        ELSE parsed.res.ok

\* a text with a wrong table name and a last part that is no integer
C3_Witness ==
    /\ ParsedText
    /\ Cardinality(SlashPositions(text)) = 2
    /\ MiddleSegment(text) # TABLE_NAME(parsed.target)
    /\ ~IsInteger(LastSegment(text))
    /\ parsed.res = KeyErr("TableNameMismatch", "none")

DeserializedText == kpc = "parsed" /\ parsed.op = "deserialize" /\ wire.kind = "str"

MaxRows == 2

VARIABLES dbFocus, dbTables, dbRows, dbFk, dbLastRowid, dbInserted, dbCreated, dbLast

dbVars == <<dbFocus, dbTables, dbRows, dbFk, dbLastRowid, dbInserted, dbCreated, dbLast>>

DbOk(x) == [ok |-> TRUE, val |-> x, err |-> "none"]

NoOutput == [none |-> TRUE]

DbErr(e) == [ok |-> FALSE, val |-> NoOutput, err |-> e]

NoOp == [op |-> "none"]

\* Database::plain() is a bare connection; Database::open() and in_memory()
\* run the migrations and switch foreign key enforcement on
DbInit ==
    /\ dbFocus \in DatabaseEntries
    /\ \/ dbTables = {} /\ dbFk = FALSE
       \/ dbTables = MigratedTables /\ dbFk = TRUE
    /\ dbRows = [E \in Entities |-> <<>>]
    /\ dbLastRowid = 0
    /\ dbInserted = {}
    /\ dbCreated = {}
    /\ dbLast = NoOp

TotalRows == Cardinality({<<E, k>> \in Entities \X (1..MaxRows) : k \in DOMAIN dbRows[E]})

\* DatabaseEntry::create_table
CreateTable(E) ==
    LET log == RunCreateStatements(create_dependencies(DepEntry(E)), dbTables)
        ok == \A i \in 1..Len(log) : log[i].ok
    IN  /\ dbTables' = dbTables \cup {log[i].table : i \in {j \in 1..Len(log) : log[j].ok}}
        /\ dbCreated' = IF ok THEN dbCreated \cup {E} ELSE dbCreated
        /\ dbLast' = [op |-> "create_table", entity |-> E, log |-> log,
                      res |-> IF ok THEN DbOk(NoOutput) ELSE DbErr("SqliteFailure")]
        /\ UNCHANGED <<dbFocus, dbRows, dbFk, dbLastRowid, dbInserted>>

\* the rowid SQLite assigns to a new row of a table
NewRowid_Count(rows) == IF DOMAIN rows = {} THEN 1 ELSE Cardinality(DOMAIN rows)

NewRowid(rows) ==
    IF DOMAIN rows = {} THEN 1
    ELSE 1 + CHOOSE m \in DOMAIN rows : \A k \in DOMAIN rows : k <= m

\* the row an INSERT stores for the bound parameters
StoredRow(E, params, rowid) ==
    [c \in FieldNames(E) \cup {"id"} |->
        IF c = "id" THEN Val("integer", rowid, "")
        ELSE ApplyAffinity(Affinity(RAW_COLUMN_VALUE(FieldType(E, c))),
                           params[CHOOSE i \in 1..Len(params) : InsertColumns(E)[i] = c].val)]

\* connection.execute(STATEMENT_INSERT, params): the outcome of the statement
ExecuteInsert(E, v) ==
    LET params == serialize_sql(E, v)
        rowid == NewRowid(dbRows[E])
        row == StoredRow(E, params, rowid)
    IN  IF E \notin dbTables THEN [err |-> "SqliteFailure"]
        ELSE IF \E i \in 1..Len(params) : ~params[i].ok THEN [err |-> "ToSqlConversionFailure"]
        ELSE IF \E c \in FieldNames(E) : NotNull(FieldType(E, c)) /\ row[c] = SqlNull
        THEN [err |-> "ConstraintViolation"]
        ELSE IF dbFk /\ \E fk \in ForeignKeys(E) :
                           row[fk.col] # SqlNull /\ row[fk.col].i \notin DOMAIN dbRows[fk.ref]
        THEN [err |-> "ConstraintViolation"]
        ELSE [err |-> "none", rowid |-> rowid, row |-> row]

\* Insertable::insert
Insert(E, v) ==
    LET r == ExecuteInsert(E, v)
    IN  /\ TotalRows < MaxRows
        /\ IF r.err = "none"
           THEN /\ dbRows' = [dbRows EXCEPT ![E] = (r.rowid :> r.row) @@ @]
                /\ dbLastRowid' = r.rowid
                /\ dbInserted' = dbInserted \cup
                       {[table |-> E, identifier |-> PrimaryKeyFrom(E, r.rowid), value |-> v]}
                /\ dbLast' = [op |-> "insert", entity |-> E,
                              res |-> DbOk(PrimaryKeyFrom(E, r.rowid))]
           ELSE /\ dbLast' = [op |-> "insert", entity |-> E, res |-> DbErr(r.err)]
                /\ UNCHANGED <<dbRows, dbLastRowid, dbInserted>>
        /\ UNCHANGED <<dbFocus, dbTables, dbFk, dbCreated>>

\* a select that hands out the stored row as it is
QueryRow_WholeRow(E, index) ==
    IF E \notin dbTables THEN DbErr("SqliteFailure")
    ELSE IF index \notin DOMAIN dbRows[E] THEN DbErr("QueryReturnedNoRows")
    ELSE DbOk([identifier |-> PrimaryKeyFrom(E, index),
               value |-> [c \in FieldNames(E) |-> dbRows[E][index][c]]])

\* connection.query_row(STATEMENT_SELECT, (index,), ..)
QueryRow(E, index) ==
    IF E \notin dbTables THEN DbErr("SqliteFailure")
    ELSE IF index \notin DOMAIN dbRows[E] THEN DbErr("QueryReturnedNoRows")
    ELSE LET t == TryFromRow(E, dbRows[E][index])
         IN  IF t.ok THEN DbOk(deserialize_sql(E, t.val)) ELSE DbErr("InvalidColumnType")

\* SelectableByPrimaryKey::select
Select(E, index) ==
    /\ dbLast' = [op |-> "select", entity |-> E, index |-> index.id, res |-> QueryRow(E, index.id)]
    /\ UNCHANGED <<dbFocus, dbTables, dbRows, dbFk, dbLastRowid, dbInserted, dbCreated>>

\* OptionalExtension::optional
Optional(r) == IF ~r.ok /\ r.err = "QueryReturnedNoRows" THEN DbOk(NoOutput) ELSE r

\* SelectableByPrimaryKey::try_select
TrySelect(E, index) ==
    /\ dbLast' = [op |-> "try_select", entity |-> E, index |-> index,
                  res |-> Optional(QueryRow(E, index))]
    /\ UNCHANGED <<dbFocus, dbTables, dbRows, dbFk, dbLastRowid, dbInserted, dbCreated>>

DbNext ==
    \/ dbFocus \in Creatable /\ CreateTable(dbFocus)
    \/ \E E \in Populated(dbFocus) : \E i \in Variants(E) : Insert(E, EntityValue(E, i))
    \/ \E E \in Populated(dbFocus), k \in 1..(MaxRows + 1) : Select(E, PrimaryKeyFrom(E, k))
    \/ \E E \in Populated(dbFocus), k \in 1..(MaxRows + 1) : TrySelect(E, k)

(***************************************************************************)
(* Properties of insert and select.                                        *)
(***************************************************************************)
SelectedInserted(rec) ==
    /\ dbLast.op \in {"select", "try_select"}
    /\ rec.table = dbLast.entity
    /\ rec.identifier.id = dbLast.index

\* C5: select and try_select of the identifier an insert returned yield the
\* output of the inserted value: the identifier is the returned one and
\* every field of the output equals the field of the inserted value.
C5_InsertThenSelect ==
    \A rec \in dbInserted :
        SelectedInserted(rec) =>
            dbLast.res = DbOk(OutputFrom(rec.table, rec.identifier, rec.value))

\* the second row of a table with a foreign key was read back
C5_Witness ==
    \E rec \in dbInserted :
        /\ SelectedInserted(rec)
        /\ dbLast.op = "try_select"
        /\ rec.table = "User"
        /\ rec.identifier.id = 2
        /\ dbLast.res.ok
        /\ dbLast.res.val.identifier = rec.identifier

(***************************************************************************)
(* Properties of schema creation.                                          *)
(***************************************************************************)
\* the entities a dependency declaration names
RECURSIVE Named(_)
Named(dep) ==
    CASE dep.kind = "unit" -> {}
      [] dep.kind = "entry" -> {dep.entry}
      [] dep.kind = "pair" -> Named(dep.left) \cup Named(dep.right)

DirectDependencies(E) == Named(DependsOn(E))

RECURSIVE Reach(_, _)
Reach(S, n) ==
    IF n = 0 THEN S ELSE Reach(S \cup UNION {DirectDependencies(E) : E \in S}, n - 1)

\* the transitive dependency set of E
TransitiveDependencies(E) == Reach(DirectDependencies(E), Cardinality(DatabaseEntries))

CreatedTable == dbLast.op = "create_table"

Positions(log, E) == {i \in 1..Len(log) : log[i].table = E}

\* C6: during create_table(E) the statement of every table of the
\* transitive dependency set is executed before every statement of an entity
\* that depends on it, and the statement of E itself is executed last.
C6_DependenciesFirst ==
    CreatedTable =>
        LET log == dbLast.log
        IN  /\ \A D \in TransitiveDependencies(dbLast.entity) : Positions(log, D) # {}
            /\ \A j \in 1..Len(log) : \A D \in DirectDependencies(log[j].table) :
                   /\ \E i \in 1..(j - 1) : log[i].table = D
                   /\ \A i \in Positions(log, D) : i < j
            /\ Positions(log, dbLast.entity) = {Len(log)}

\* a chain of three levels: Document needs User, User needs Person
C6_Witness ==
    /\ CreatedTable
    /\ dbLast.entity = "Document"
    /\ dbLast.res.ok
    /\ Len(dbLast.log) > 2

\* C7 as stated: in one call of create_table(E) the statement of every
\* table of the transitive dependency set is issued exactly once.
C7_IssuedOnce ==
    CreatedTable =>
        \A D \in TransitiveDependencies(dbLast.entity) \cup {dbLast.entity} :
            Cardinality(Positions(dbLast.log, D)) = 1

\* the number of dependency paths that lead from E to D
RECURSIVE PathsFrom(_, _, _)
PathsFrom(E, D, todo) ==
    IF E = D THEN 1
    ELSE IF todo = {} THEN 0
    ELSE LET X == CHOOSE X \in todo : TRUE
         IN  PathsFrom(X, D, DirectDependencies(X)) + PathsFrom(E, D, todo \ {X})

Paths(E, D) == PathsFrom(E, D, DirectDependencies(E))

\* C7 amended: in one call of create_table(E) the statement of every table
\* of the transitive dependency set is issued once per dependency path that
\* leads to it, so at least once; every such table exists afterwards, and no
\* table is created more than once: only the first statement of a table can
\* create it, its repetitions change nothing.
C7_CreatedOnce ==
    CreatedTable =>
        LET log == dbLast.log
        IN  \A D \in TransitiveDependencies(dbLast.entity) \cup {dbLast.entity} :
                /\ Positions(log, D) # {}
                /\ dbLast.res.ok => Cardinality(Positions(log, D)) = Paths(dbLast.entity, D)
                /\ D \in dbTables
                /\ Cardinality({i \in Positions(log, D) : log[i].created}) <= 1
                /\ \A i \in Positions(log, D) :
                       log[i].created => \A j \in Positions(log, D) : i <= j

\* persons is reachable from Document directly and through User
C7_Witness ==
    /\ CreatedTable
    /\ dbLast.entity = "Document"
    /\ Cardinality(Positions(dbLast.log, "Person")) = 2
    /\ Cardinality({i \in Positions(dbLast.log, "Person") : dbLast.log[i].created}) = 1

\* C8: create_table(E) on a database where create_table(E) already
\* succeeded returns Ok and changes neither the tables nor the rows.
C8_Idempotent ==
    [][(dbLast'.op = "create_table" /\ dbLast'.entity \in dbCreated)
          => /\ dbLast'.res.ok
             /\ dbTables' = dbTables
             /\ dbRows' = dbRows]_dbVars

\* create_table(E) was repeated on a database that holds rows
C8_Witness ==
    /\ CreatedTable
    /\ dbLast.entity \in dbCreated
    /\ \A i \in 1..Len(dbLast.log) : ~dbLast.log[i].created
    /\ TotalRows > 0

(***************************************************************************)
(* Pagination: util/pagination.rs over Selectable::SORTABLE_COLUMNS.       *)
(***************************************************************************)

\* the number of next/previous steps taken from one descriptor
MaxSteps == 2

\* the entities that implement Selectable
Selectables == Entities

\* DatabaseType::IS_SORTABLE
IS_SORTABLE(ty) ==
    /\ ~ty.opt
    /\ ty.base \in {"u32", "Date", "PrimaryKey", "Amount"}

\* the characters of a column name
Chars(name) ==
    CASE name = "id" -> <<"i", "d">>
      [] name = "creation_date" ->
           <<"c", "r", "e", "a", "t", "i", "o", "n", "_", "d", "a", "t", "e">>
      [] name = "recieved" -> <<"r", "e", "c", "i", "e", "v", "e", "d">>
      [] name = "processed" -> <<"p", "r", "o", "c", "e", "s", "s", "e", "d">>
      [] name = "code" -> <<"c", "o", "d", "e">>
      [] name = "category" -> <<"c", "a", "t", "e", "g", "o", "r", "y">>
      [] name = "evidence" -> <<"e", "v", "i", "d", "e", "n", "c", "e">>
      [] name = "account" -> <<"a", "c", "c", "o", "u", "n", "t">>
      [] name = "cost_center" ->
           <<"c", "o", "s", "t", "_", "c", "e", "n", "t", "e", "r">>
      [] name = "amount" -> <<"a", "m", "o", "u", "n", "t">>

\* Selectable::SORTABLE_COLUMNS: written out for User and Document, generated
\* by impl_select! for the others (unsortable fields are replaced by "id")
SortableColumns(T) ==
    CASE T = "User" -> <<"id", "creation_date">>
      [] T = "Document" -> <<"id", "recieved", "processed">>
      [] OTHER ->
           <<"id">> \o [i \in 1..Len(Fields(T)) |->
                          IF IS_SORTABLE(Fields(T)[i].ty) THEN Fields(T)[i].name ELSE "id"]

\* T::SORTABLE_COLUMNS as the constant the compiler evaluates once, each name
\* as its characters
SORTABLE_COLUMNS ==
    [T \in Selectables |->
        [i \in 1..Len(SortableColumns(T)) |-> Chars(SortableColumns(T)[i])]]

(***************************************************************************)
(* usize is 64 bits wide.  A usize is kept as the integer that has the     *)
(* same 64 bits in two's complement: 0, 1, 2, ... stand for themselves and *)
(* usize::MAX, usize::MAX - 1, ... are -1, -2, ...  Only values near the   *)
(* two ends occur, and there the wrapping sum of two usize is the sum of   *)
(* these integers.                                                         *)
(***************************************************************************)
usize_MAX == 0 - 1

\* a < b for two usize
UsizeLess(a, b) == IF (a < 0) = (b < 0) THEN a < b ELSE b < 0

\* a + b exceeds usize::MAX, for a small b
AddOverflows(a, b) == a < 0 /\ a + b >= 0

\* usize::saturating_sub, for a small b
saturating_sub(a, b) == IF UsizeLess(a, b) THEN 0 ELSE a - b

\* the decimal digits of 2^64 = 18446744073709551616: the first fifteen and
\* the number the last five make
TwoPow64High ==
    <<"1", "8", "4", "4", "6", "7", "4", "4", "0", "7", "3", "7", "0", "9", "5">>

TwoPow64Low == 51616

\* the decimal digits of u64::MAX
U64MaxDigits == TwoPow64High \o NatToStr(TwoPow64Low - 1)

\* n written with at least five digits
Pad5(n) == SubSeq(<<"0", "0", "0", "0">>, 1, 5 - Len(NatToStr(n))) \o NatToStr(n)

\* Display for usize
UsizeToStr(n) == IF n >= 0 THEN NatToStr(n) ELSE TwoPow64High \o Pad5(TwoPow64Low + n)

\* the usize a string of digits without leading zeros denotes
UsizeOfDigits(mag) ==
    IF Len(mag) = 20 /\ SubSeq(mag, 1, 15) = TwoPow64High
    THEN DigitsToNat(SubSeq(mag, 16, 20), 0) - TwoPow64Low
    ELSE DigitsToNat(mag, 0)

\* str::parse::<usize>: an optional plus sign, then at least one digit
ParseUsize(s) ==
    IF s = <<>> THEN IntErr("Empty")
    ELSE LET ds == IF s[1] = "+" THEN Tail(s) ELSE s
         IN  IF ds = <<>> \/ \E i \in 1..Len(ds) : ~IsDigit(ds[i])
             THEN IntErr("InvalidDigit")
             ELSE IF MagGreater(StripZeros(ds), U64MaxDigits) THEN IntErr("PosOverflow")
             ELSE IntOk(UsizeOfDigits(StripZeros(ds)))

\* std::cmp::min of two usize
Min(a, b) == IF UsizeLess(b, a) THEN b ELSE a

\* Limit::DEFAULT
Limit_DEFAULT == 10

\* Limit::MAXIMUM
Limit_MAXIMUM == 100

\* impl From<usize> for Limit
LimitFrom_Unclamped(value) == value

LimitFrom(value) == Min(value, Limit_MAXIMUM)

\* impl FromFormField for Limit: usize::from_value(field).map(Limit::from)
Limit_from_value(field) ==
    LET n == ParseUsize(field)
    IN  IF n.ok THEN IntOk(LimitFrom(n.val)) ELSE n

\* impl Display for Order
OrderToString(order) ==
    IF order = "Ascending" THEN <<"A", "S", "C">> ELSE <<"D", "E", "S", "C">>

\* impl Default for Order
Order_default == "Descending"

NoPage == [entity |-> "none", offset |-> 0, limit |-> 0, order |-> "none", column |-> 0]

PageOk(p, c) == [ok |-> TRUE, err |-> "none", page |-> p, col |-> c]

PageErr(e) == [ok |-> FALSE, err |-> e, page |-> NoPage, col |-> 0]

\* the panic of an arithmetic operation that overflows when the build has
\* overflow checks
PagePanic == PageErr("attempt to add with overflow")

\* Option::None of next and previous
PageNone == PageErr("None")

\* Column::as_str; a Column is an index into SORTABLE_COLUMNS
as_str(T, column) == SORTABLE_COLUMNS[T][column + 1]

\* impl TryFrom<&str> for Column
Column_try_from_DefaultsToId(T, column) ==
    LET hits == {i \in 1..Len(SORTABLE_COLUMNS[T]) : SORTABLE_COLUMNS[T][i] = column}
    IN  IF hits = {}
        THEN PageOk(NoPage, 0)
        ELSE PageOk(NoPage, (CHOOSE i \in hits : \A j \in hits : i <= j) - 1)

Column_try_from(T, column) ==
    LET hits == {i \in 1..Len(SORTABLE_COLUMNS[T]) : SORTABLE_COLUMNS[T][i] = column}
    IN  IF hits = {}
        THEN PageErr("InvalidColumn")
        ELSE PageOk(NoPage, (CHOOSE i \in hits : \A j \in hits : i <= j) - 1)

\* impl Display for Column
ColumnToString(T, column) == <<"\"">> \o as_str(T, column) \o <<"\"">>

\* impl Default for Pagination
Pagination_default(T) ==
    [entity |-> T, offset |-> 0, limit |-> Limit_DEFAULT, order |-> Order_default, column |-> 0]

\* Pagination::new
Pagination_new(T, column, offset, limit, order) ==
    LET c == Column_try_from(T, column)
    IN  IF ~c.ok
        THEN c
        ELSE PageOk([entity |-> T, offset |-> offset, limit |-> limit, order |-> order,
                     column |-> c.col], c.col)

\* Pagination::next; offset += limit panics on overflow in a build with
\* overflow checks (debug) and wraps around in one without (release)
next_NoneAtLimit(p, num_recieved_elements, overflow_checks) ==
    IF ~UsizeLess(p.limit, num_recieved_elements)
    THEN PageNone
    ELSE IF AddOverflows(p.offset, p.limit) /\ overflow_checks
    THEN PagePanic
    ELSE PageOk([p EXCEPT !.offset = @ + p.limit], p.column)

next(p, num_recieved_elements, overflow_checks) ==
    IF UsizeLess(num_recieved_elements, p.limit)
    THEN PageNone
    ELSE IF AddOverflows(p.offset, p.limit) /\ overflow_checks
    THEN PagePanic
    ELSE PageOk([p EXCEPT !.offset = @ + p.limit], p.column)

\* Pagination::previous
previous_Wrapping(p) ==
    IF p.offset = 0
    THEN PageNone
    ELSE PageOk([p EXCEPT !.offset = @ - p.limit], p.column)

previous(p) ==
    IF p.offset = 0
    THEN PageNone
    ELSE PageOk([p EXCEPT !.offset = saturating_sub(@, p.limit)], p.column)

\* the whitelist of T, as text
Whitelist(T) == {SORTABLE_COLUMNS[T][i] : i \in 1..Len(SORTABLE_COLUMNS[T])}

\* the column strings a caller supplies for T: every sortable name, a column
\* that exists but is not sortable, and SQL text
ColumnTexts(T) ==
    Whitelist(T) \cup {<<"n", "a", "m", "e">>, <<"i", "d", "\"", " ", "-", "-">>}

\* more strings that are not column names: wrong case, the empty string, and
\* a sortable column of another entity
OtherTexts == {<<"I", "D">>, <<>>, <<"u", "n", "k", "n", "o", "w", "n">>}

\* the offsets, page sizes and row counts a caller supplies
OffsetInputs == {0, 5, usize_MAX - 1}

\* the numbers a caller converts to a Limit
LimitValues == {0, 1, 99, 100, 101, 200, usize_MAX}

\* the form fields a caller has parsed as a Limit
LimitFields ==
    {<<"7">>, <<"1", "0", "0">>, <<"1", "0", "1">>, <<"+", "5">>, <<"-", "1">>,
     <<"a", "b", "c">>, <<>>, U64MaxDigits, TwoPow64High \o NatToStr(TwoPow64Low)}

LimitInputs == {0, 3, 200}

ReceivedInputs == {0, 2, 3, 200}

Orders == {"Ascending", "Descending"}

VARIABLES
    pgFocus,    \* the entity T of the Pagination<T> this run is about
    pg,         \* the Pagination the caller holds, NoPage before the first one
    pgRejected, \* the column string Pagination::new rejected last
    pgSteps,    \* next/previous steps taken
    pgLast      \* the last pagination operation and what it returned

pageVars == <<pgFocus, pg, pgRejected, pgSteps, pgLast>>

PageOp(op, T, column, res, sql) ==
    [op |-> op, entity |-> T, column |-> column, res |-> res, sql |-> sql,
     arg |-> 0, out |-> IntErr("none")]

\* an operation with a number as its input, or as its output
PageNumOp(op, T, field, arg, res, out) ==
    [PageOp(op, T, field, res, <<>>) EXCEPT !.arg = arg, !.out = out]

PageInit ==
    /\ pgFocus \in Selectables
    /\ pg = NoPage
    /\ pgRejected = <<>>
    /\ pgSteps = 0
    /\ pgLast = PageOp("none", "none", <<>>, PageNone, <<>>)

\* struct DisplaySql: the fragment appended to a SELECT statement
DisplaySql_CallerColumn(p) ==
    <<"O", "R", "D", "E", "R", " ", "B", "Y", " ">> \o <<"\"">> \o pgRejected \o <<"\"">>
    \o <<" ">> \o OrderToString(p.order)
    \o <<" ", "L", "I", "M", "I", "T", " ">> \o NatToStr(p.limit)
    \o <<" ", "O", "F", "F", "S", "E", "T", " ">> \o UsizeToStr(p.offset)

DisplaySql(p) ==
    <<"O", "R", "D", "E", "R", " ", "B", "Y", " ">> \o ColumnToString(p.entity, p.column)
    \o <<" ">> \o OrderToString(p.order)
    \o <<" ", "L", "I", "M", "I", "T", " ">> \o NatToStr(p.limit)
    \o <<" ", "O", "F", "F", "S", "E", "T", " ">> \o UsizeToStr(p.offset)

\* a caller converts a column string on its own
PageColumnTryFrom(T, column) ==
    /\ pgLast' = PageOp("try_from", T, column, Column_try_from(T, column), <<>>)
    /\ UNCHANGED <<pgFocus, pg, pgRejected, pgSteps>>

\* a caller builds a descriptor; on an error it keeps the one it has
PageNew(T, column, offset, limit, order) ==
    LET res == Pagination_new(T, column, offset, limit, order)
    IN  /\ pgLast' = PageOp("new", T, column, res, <<>>)
        /\ pg' = IF res.ok THEN res.page ELSE pg
        /\ pgRejected' = IF res.ok THEN pgRejected ELSE column
        /\ pgSteps' = IF res.ok THEN 0 ELSE pgSteps
        /\ UNCHANGED pgFocus

PageDefault(T) ==
    /\ pg' = Pagination_default(T)
    /\ pgLast' = PageOp("default", T, <<>>, PageOk(pg', 0), <<>>)
    /\ pgSteps' = 0
    /\ UNCHANGED <<pgFocus, pgRejected>>

\* Limit::from(value), while the caller reads its input
PageLimitFrom(value) ==
    /\ pg = NoPage
    /\ pgLast' = PageNumOp("limit_from", "none", <<>>, value, PageNone,
                            IntOk(LimitFrom(value)))
    /\ UNCHANGED <<pgFocus, pg, pgRejected, pgSteps>>

\* Limit::from_value(field), while the caller reads its input
PageLimitFromValue(field) ==
    /\ pg = NoPage
    /\ pgLast' = PageNumOp("limit_from_value", "none", field, 0, PageNone,
                            Limit_from_value(field))
    /\ UNCHANGED <<pgFocus, pg, pgRejected, pgSteps>>

PageNext(num_recieved_elements, overflow_checks) ==
    LET res == next(pg, num_recieved_elements, overflow_checks)
    IN  /\ pg # NoPage
        /\ pgSteps < MaxSteps
        /\ pgLast' = PageNumOp("next", pg.entity, <<>>, num_recieved_elements, res,
                                IntErr("none"))
        /\ pg' = IF res.ok THEN res.page ELSE pg
        /\ pgSteps' = pgSteps + 1
        /\ UNCHANGED <<pgFocus, pgRejected>>

PagePrevious ==
    LET res == previous(pg)
    IN  /\ pg # NoPage
        /\ pgSteps < MaxSteps
        /\ pgLast' = PageOp("previous", pg.entity, <<>>, res, <<>>)
        /\ pg' = IF res.ok THEN res.page ELSE pg
        /\ pgSteps' = pgSteps + 1
        /\ UNCHANGED <<pgFocus, pgRejected>>

PageDisplaySql ==
    /\ pg # NoPage
    /\ pgLast.op # "display_sql"
    /\ pgLast' = PageOp("display_sql", pg.entity, <<>>, PageOk(pg, pg.column), DisplaySql(pg))
    /\ UNCHANGED <<pgFocus, pg, pgRejected, pgSteps>>

PageNext_ ==
    \/ \E column \in ColumnTexts(pgFocus) \cup OtherTexts :
           PageColumnTryFrom(pgFocus, column)
    \/ \E column \in ColumnTexts(pgFocus), offset \in OffsetInputs,
          value \in LimitInputs, order \in Orders :
           PageNew(pgFocus, column, offset, LimitFrom(value), order)
    \/ PageDefault(pgFocus)
    \/ \E value \in LimitValues : PageLimitFrom(value)
    \/ \E field \in LimitFields : PageLimitFromValue(field)
    \/ \E n \in ReceivedInputs, overflow_checks \in BOOLEAN : PageNext(n, overflow_checks)
    \/ PagePrevious
    \/ PageDisplaySql

(***************************************************************************)
(* Claims about pagination.                                                *)
(***************************************************************************)

\* C9: Pagination::new and Column::try_from succeed only for a column string
\* that is an element of T's SORTABLE_COLUMNS, and then select that element;
\* any other string gives Err(InvalidColumn) and no descriptor.
C9_WhitelistOnly ==
    pgLast.op \in {"new", "try_from"} =>
        IF \E i \in 1..Len(SORTABLE_COLUMNS[pgLast.entity]) :
               SORTABLE_COLUMNS[pgLast.entity][i] = pgLast.column
        THEN /\ pgLast.res.ok
             /\ SORTABLE_COLUMNS[pgLast.entity][pgLast.res.col + 1] = pgLast.column
             /\ pgLast.op = "new" =>
                    /\ pgLast.res.page = pg
                    /\ pg.entity = pgLast.entity
                    /\ pg.column = pgLast.res.col
        ELSE /\ ~pgLast.res.ok
             /\ pgLast.res.err = "InvalidColumn"
             /\ pgLast.res.page = NoPage

\* "name" is a column of persons, but not a sortable one
C9_Witness ==
    /\ pgLast.op = "new"
    /\ pgLast.entity = "Person"
    /\ pgLast.column = <<"n", "a", "m", "e">>
    /\ ~pgLast.res.ok

\* s occurs in t as a contiguous piece
Contains(t, s) == \E i \in 0..(Len(t) - Len(s)) : SubSeq(t, i + 1, i + Len(s)) = s

\* C10: the rendered fragment is exactly ORDER BY "<c>" <ASC|DESC> LIMIT <n>
\* OFFSET <m> with <c> the whitelist element at the descriptor's index, and a
\* rejected caller string never appears in it.
C10_SqlFragment ==
    pgLast.op = "display_sql" =>
        /\ pg.column + 1 \in 1..Len(SORTABLE_COLUMNS[pg.entity])
        /\ \E c \in Whitelist(pg.entity) :
           \E o \in {<<"A", "S", "C">>, <<"D", "E", "S", "C">>} :
               /\ c = SORTABLE_COLUMNS[pg.entity][pg.column + 1]
               /\ (o = <<"A", "S", "C">>) <=> (pg.order = "Ascending")
               /\ pgLast.sql =
                      <<"O", "R", "D", "E", "R", " ", "B", "Y", " ", "\"">> \o c
                      \o <<"\"", " ">> \o o
                      \o <<" ", "L", "I", "M", "I", "T", " ">> \o NatToStr(pg.limit)
                      \o <<" ", "O", "F", "F", "S", "E", "T", " ">> \o UsizeToStr(pg.offset)
        /\ pgRejected # <<>> => ~Contains(pgLast.sql, pgRejected)

\* a descriptor that was advanced by next is rendered after the caller had a
\* column string with SQL text rejected
C10_Witness ==
    /\ pgLast.op = "display_sql"
    /\ pg.column > 0
    /\ pg.offset > 5
    /\ pgSteps > 0
    /\ pgRejected = <<"i", "d", "\"", " ", "-", "-">>

\* C11: a Limit made from a number is that number when it is at most
\* Limit::MAXIMUM and MAXIMUM otherwise, a Limit parsed from a form field and
\* the limit of every descriptor is at most MAXIMUM, and next and previous
\* leave the limit as it is.
C11_LimitClamped ==
    [][/\ pgLast'.op = "limit_from" =>
              pgLast'.out = IntOk(IF pgLast'.arg \in 0..Limit_MAXIMUM
                                  THEN pgLast'.arg ELSE Limit_MAXIMUM)
       /\ (pgLast'.op = "limit_from_value" /\ pgLast'.out.ok) =>
              pgLast'.out.val \in 0..Limit_MAXIMUM
       /\ pg' # NoPage => pg'.limit \in 0..Limit_MAXIMUM
       /\ (pgLast'.op \in {"next", "previous"} /\ pgLast'.res.ok) =>
              /\ pgLast'.res.page.limit = pg.limit
              /\ pg'.limit = pg.limit]_pageVars

\* a descriptor whose limit was clamped has been advanced
C11_Witness ==
    /\ pgLast.op = "next"
    /\ pgLast.res.ok
    /\ pg.limit = Limit_MAXIMUM
    /\ pgSteps = MaxSteps

\* c is the number a + b, for two usize a and c and a small b
IsSum(c, a, b) == c = a + b /\ (a < 0 => c < 0)

\* C12: next(received) returns None when received < limit; otherwise it
\* returns the descriptor with the offset advanced by the limit and with the
\* same limit, order and column.
C12_NextAdvances ==
    [][pgLast'.op = "next" =>
          IF pgLast'.arg < pg.limit
          THEN pgLast'.res = PageNone
          ELSE /\ pgLast'.res.ok
               /\ IsSum(pgLast'.res.page.offset, pg.offset, pg.limit)
               /\ pgLast'.res.page = [pg EXCEPT !.offset = pgLast'.res.page.offset]]_pageVars

\* the number max(a - b, 0), for a usize a and a small b
FlooredDifference(a, b) == IF a >= 0 /\ a - b < 0 THEN 0 ELSE a - b

\* C13: previous() returns None exactly when the offset is 0; otherwise it
\* returns the descriptor with offset max(offset - limit, 0) and with the
\* same limit, order and column.
C13_PreviousFloors ==
    [][pgLast'.op = "previous" =>
          IF pg.offset = 0
          THEN pgLast'.res = PageNone
          ELSE /\ pgLast'.res.ok
               /\ pgLast'.res.page =
                      [pg EXCEPT !.offset = FlooredDifference(pg.offset, pg.limit)]]_pageVars

\* previous() of a descriptor with offset 5 and limit 100 stopped at 0
C13_Witness ==
    /\ pgLast.op = "previous"
    /\ pgLast.res.ok
    /\ pgLast.res.page = pg
    /\ pg.offset = 0
    /\ pg.limit = Limit_MAXIMUM
    /\ pgSteps = 1

\* C14: whenever p.next(r) is Some(q), q.previous() is Some(p).
C14_Reversible ==
    [][(pgLast'.op = "next" /\ pgLast'.res.ok) =>
          previous(pgLast'.res.page) = PageOk(pg, pg.column)]_pageVars

(***************************************************************************)
(* The foreign key cache of the frontend: ForeignKeyStorage<Map>.          *)
(***************************************************************************)
\* the bulk-load queries one instance issues for one table are at most
\* MaxQueries
MaxQueries == 2

\* the entities that implement Referenceable
Referenceables == {"Person", "Group", "Category", "Account", "CostCenter", "Document"}

\* the column impl_select names as the description of an entity
DescriptionColumn(T) == IF T = "Person" THEN "name" ELSE "description"

\* the rows of a table in the order a SELECT without ORDER BY walks them
RECURSIVE RowsInOrder(_, _)
RowsInOrder(rows, todo) ==
    IF todo = {} THEN <<>>
    ELSE LET k == CHOOSE m \in todo : \A n \in todo : m <= n
         IN  <<rows[k]>> \o RowsInOrder(rows, todo \ {k})

\* Iterator::filter_map(|value| value.ok()): the decoded values, in order
RECURSIVE FilterOk(_)
FilterOk(results) ==
    IF results = <<>> THEN <<>>
    ELSE (IF Head(results).ok THEN <<Head(results).val>> ELSE <<>>) \o FilterOk(Tail(results))

\* Referenceable::generate_descriptions as the trait provides it: the
\* identifier and the description column of every row
Referenceable_generate_descriptions(T) ==
    IF T \notin dbTables THEN DbErr("SqliteFailure")
    ELSE LET rows == RowsInOrder(dbRows[T], DOMAIN dbRows[T])
             decode(row) ==
                 LET id == FromSql(Pk(T), row["id"])
                     description == FromSql(Ty("String"), row[DescriptionColumn(T)])
                 IN  IF id.ok /\ description.ok
                     THEN [ok |-> TRUE,
                           val |-> [identifier |-> PrimaryKeyFrom(T, id.val.i),
                                    label |-> <<description.val.s>>]]
                     ELSE [ok |-> FALSE, val |-> NoOutput]
         IN  DbOk(FilterOk([i \in 1..Len(rows) |-> decode(rows[i])]))

\* Document's generate_descriptions: the date of processing, a blank and
\* the description
Document_generate_descriptions ==
    IF "Document" \notin dbTables THEN DbErr("SqliteFailure")
    ELSE LET rows == RowsInOrder(dbRows["Document"], DOMAIN dbRows["Document"])
             decode(row) ==
                 LET id == FromSql(Pk("Document"), row["id"])
                     date == FromSql(Ty("Date"), row["processed"])
                     description == FromSql(Opt(Ty("String")), row["description"])
                 IN  IF id.ok /\ date.ok /\ description.ok
                     THEN [ok |-> TRUE,
                           val |-> [identifier |-> PrimaryKeyFrom("Document", id.val.i),
                                    label |-> <<date.val.s, " ", description.val.s>>]]
                     ELSE [ok |-> FALSE, val |-> NoOutput]
         IN  DbOk(FilterOk([i \in 1..Len(rows) |-> decode(rows[i])]))

\* <T as Referenceable>::generate_descriptions
generate_descriptions(T) ==
    IF T = "Document" THEN Document_generate_descriptions
    ELSE Referenceable_generate_descriptions(T)

\* Map::from(Vec<(PrimaryKey<T>, String)>): a HashMap from the raw
\* identifier to the label, a later pair replacing an earlier one
MapFrom(descriptions) ==
    [k \in {descriptions[i].identifier.id : i \in 1..Len(descriptions)} |->
        descriptions[CHOOSE i \in 1..Len(descriptions) :
                        /\ descriptions[i].identifier.id = k
                        /\ \A j \in 1..Len(descriptions) :
                               descriptions[j].identifier.id = k => j <= i].label]

\* an entry of the cache; a table without an entry holds NotLoaded
NotLoaded == [loaded |-> FALSE, rows |-> <<>>]

Loaded(container) == [loaded |-> TRUE, rows |-> container]

\* ForeignKeyStorage::from(&Database)
ForeignKeyStorage_from == [T \in Referenceables |-> NotLoaded]

NoDescriptions == DbErr("none")

\* ForeignKeyStorage::add that asks the database on every call
add_Reload(cache, T) ==
    LET d == generate_descriptions(T)
    IN  IF d.ok THEN [cache |-> [cache EXCEPT ![T] = Loaded(MapFrom(d.val))],
                      res |-> DbOk(NoOutput), query |-> d]
        ELSE [cache |-> cache, res |-> DbErr(d.err), query |-> d]

\* ForeignKeyStorage::add: the cache afterwards, the result, and the
\* outcome of the query if one was issued
add(cache, T) ==
    IF cache[T].loaded THEN [cache |-> cache, res |-> DbOk(NoOutput), query |-> NoDescriptions]
    ELSE LET d == generate_descriptions(T)
         IN  IF d.ok THEN [cache |-> [cache EXCEPT ![T] = Loaded(MapFrom(d.val))],
                           res |-> DbOk(NoOutput), query |-> d]
             ELSE [cache |-> cache, res |-> DbErr(d.err), query |-> d]

NoLabel == [some |-> FALSE, label |-> <<>>]

SomeLabel(l) == [some |-> TRUE, label |-> l]

\* ForeignKeyStorage::get that looks the identifier up in every container
get_AnyTable(cache, T, primary_key) ==
    IF \E U \in Referenceables : cache[U].loaded /\ primary_key.id \in DOMAIN cache[U].rows
    THEN SomeLabel(cache[CHOOSE U \in Referenceables :
                        cache[U].loaded /\ primary_key.id \in DOMAIN cache[U].rows].rows[primary_key.id])
    ELSE NoLabel

\* ForeignKeyStorage::get
get(cache, T, primary_key) ==
    IF ~cache[T].loaded THEN NoLabel
    ELSE IF primary_key.id \notin DOMAIN cache[T].rows THEN NoLabel
    ELSE SomeLabel(cache[T].rows[primary_key.id])

VARIABLES
    fkCache,    \* the cache of the ForeignKeyStorage of this render pass
    fkQueries,  \* per table, the outcomes of the bulk-load queries the instance issued
    fkLast      \* the last call on the instance

fkVars == <<fkCache, fkQueries, fkLast>>

FkOp(op, T, id, res, queried, label) ==
    [op |-> op, entity |-> T, id |-> id, res |-> res, queried |-> queried, label |-> label]

FkInit ==
    /\ fkCache = ForeignKeyStorage_from
    /\ fkQueries = [T \in Referenceables |-> <<>>]
    /\ fkLast = FkOp("none", "none", 0, DbOk(NoOutput), FALSE, NoLabel)

\* a render pass starts: InsertFormRenderer::generate_context makes a new
\* storage
FkFrom ==
    /\ fkCache' = ForeignKeyStorage_from
    /\ fkQueries' = [T \in Referenceables |-> <<>>]
    /\ fkLast' = FkOp("from", "none", 0, DbOk(NoOutput), FALSE, NoLabel)
    /\ UNCHANGED dbVars

\* ForeignKey::load: storage.add::<T>()
FkAdd(T) ==
    LET r == add(fkCache, T)
        queried == r.query # NoDescriptions
    IN  /\ queried => Len(fkQueries[T]) < MaxQueries
        /\ fkCache' = r.cache
        /\ fkQueries' = IF queried THEN [fkQueries EXCEPT ![T] = Append(@, r.query)] ELSE fkQueries
        /\ fkLast' = FkOp("add", T, 0, r.res, queried, NoLabel)
        /\ UNCHANGED dbVars

\* storage.get::<T>(primary_key)
FkGet(T, primary_key) ==
    /\ fkLast' = FkOp("get", T, primary_key.id, DbOk(NoOutput), FALSE, get(fkCache, T, primary_key))
    /\ UNCHANGED <<fkCache, fkQueries, dbVars>>

\* a render pass next to the insertions of other requests; the tables of a
\* plain connection are created once
FkNext ==
    \/ dbFocus \in Creatable /\ dbTables = {} /\ CreateTable(dbFocus) /\ UNCHANGED fkVars
    \/ \E E \in Populated(dbFocus) \cap Referenceables : \E i \in Variants(E) :
            Insert(E, EntityValue(E, i)) /\ UNCHANGED fkVars
    \/ FkFrom
    \/ \E T \in Populated(dbFocus) \cap Referenceables : FkAdd(T)
    \/ \E T \in Populated(dbFocus) \cap Referenceables, k \in 1..(MaxRows + 1) :
            FkGet(T, PrimaryKeyFrom(T, k))

(***************************************************************************)
(* Properties of the foreign key cache.                                    *)
(***************************************************************************)
\* the bulk-load queries of a table that returned descriptions
SuccessfulLoads(T) == {i \in 1..Len(fkQueries[T]) : fkQueries[T][i].ok}

\* an add for a table the cache holds asks nothing and changes nothing
AddOnLoaded ==
    [][(fkLast'.op = "add" /\ fkCache[fkLast'.entity].loaded)
          => (fkQueries' = fkQueries /\ fkCache' = fkCache /\ fkLast'.res.ok)]_fkVars

\* C15 as stated: for one ForeignKeyStorage and any sequence of add calls,
\* at most one bulk-load query is issued per table, and an add for a table
\* that is already loaded issues no query and leaves the cache unchanged.
C15_OneQueryPerTable ==
    /\ [](\A T \in Referenceables : Len(fkQueries[T]) <= 1)
    /\ AddOnLoaded

\* C15: for one ForeignKeyStorage and any sequence of add calls, at most
\* one bulk-load query per table succeeds; an add for a table that is
\* already loaded issues no query and leaves the cache unchanged; an add
\* whose query fails returns the error and caches nothing, so that the next
\* add for that table issues the query again.
C15_OneLoadPerTable ==
    /\ [](\A T \in Referenceables : Cardinality(SuccessfulLoads(T)) <= 1)
    /\ AddOnLoaded
    /\ [][(fkLast'.op = "add" /\ ~fkCache[fkLast'.entity].loaded)
             => /\ fkLast'.queried
                /\ fkQueries'[fkLast'.entity] =
                       Append(fkQueries[fkLast'.entity], generate_descriptions(fkLast'.entity))
                /\ fkCache'[fkLast'.entity].loaded = fkLast'.res.ok
                /\ ~fkLast'.res.ok => fkCache' = fkCache]_fkVars

\* a failed query, a second query that loaded the table, and an add after a
\* row was inserted that left the cache as it was
C15_Witness ==
    \E T \in Referenceables :
        /\ Len(fkQueries[T]) = 2 /\ ~fkQueries[T][1].ok /\ fkQueries[T][2].ok
        /\ fkLast.op = "add" /\ fkLast.entity = T /\ ~fkLast.queried
        /\ fkCache[T].loaded
        /\ DOMAIN fkCache[T].rows # DOMAIN dbRows[T]

\* the label a bulk-load of the table returned for the identifier
LoadedLabel(T, id) ==
    IF SuccessfulLoads(T) = {} THEN NoLabel
    ELSE LET d == fkQueries[T][CHOOSE i \in SuccessfulLoads(T) : TRUE].val
             hits == {i \in 1..Len(d) : d[i].identifier.id = id}
         IN  IF hits = {} THEN NoLabel ELSE SomeLabel(d[CHOOSE i \in hits : TRUE].label)

\* C16: get issues no query and leaves the cache as it is; it returns None
\* when the table of the key was never loaded with add or the identifier was
\* not among the rows loaded, and the label loaded for the identifier
\* otherwise.
C16_GetLooksUp ==
    [][fkLast'.op = "get"
          => /\ fkCache' = fkCache /\ fkQueries' = fkQueries /\ dbRows' = dbRows
             /\ fkLast'.label = LoadedLabel(fkLast'.entity, fkLast'.id)]_fkVars

\* a label found in a cache that no longer holds all rows of its table
C16_Witness ==
    /\ fkLast.op = "get" /\ fkLast.label.some
    /\ DOMAIN fkCache[fkLast.entity].rows # DOMAIN dbRows[fkLast.entity]

(***************************************************************************)
(* The application error and the handlers of the HTTP boundary.            *)
(***************************************************************************)
\* the rusqlite::Error a database::Error wraps: its variant and, of a
\* SqliteFailure, the error code
RusqliteError(err) ==
    CASE err = "ConstraintViolation" -> [variant |-> "SqliteFailure", code |-> "ConstraintViolation"]
      [] err = "SqliteFailure" -> [variant |-> "SqliteFailure", code |-> "Unknown"]
      [] OTHER -> [variant |-> err, code |-> "none"]

\* an is_constraint_violation that looks at the variant only
is_constraint_violation_AnyFailure(err) == RusqliteError(err).variant = "SqliteFailure"

\* database::Error::is_constraint_violation
is_constraint_violation(err) ==
    LET e == RusqliteError(err)
    IN  IF e.variant = "SqliteFailure" THEN e.code = "ConstraintViolation" ELSE FALSE

\* the application errors
AppError(kind, cause) == [kind |-> kind, cause |-> cause]

NotFound == AppError("NotFound", "none")

\* impl From<database::Error> for Error
ErrorFrom(err) ==
    IF is_constraint_violation(err) THEN AppError("ConstraintViolation", "none")
    ELSE AppError("DatabaseError", err)

\* impl Responder for Error: the status answered
respond_to(error) ==
    CASE error.kind = "ConstraintViolation" -> "BadRequest"
      [] error.kind = "DatabaseError" -> "InternalServerError"
      [] error.kind = "NotFound" -> "NotFound"
      [] error.kind = "WrongPassword" -> "Unauthorized"

\* the answer to a request whose handler got the result res of the database
\* and left with its error through Error::from
Respond(res, success) == IF res.ok THEN success ELSE respond_to(ErrorFrom(res.err))

\* a select_all that stops at the first row it cannot decode
select_all_Collect(E) ==
    IF E \notin dbTables THEN DbErr("SqliteFailure")
    ELSE LET rows == RowsInOrder(dbRows[E], DOMAIN dbRows[E])
             decoded == [i \in 1..Len(rows) |-> TryFromRow(E, rows[i])]
         IN  IF \E i \in 1..Len(rows) : ~decoded[i].ok THEN DbErr("InvalidColumnType")
             ELSE DbOk([i \in 1..Len(rows) |-> deserialize_sql(E, decoded[i].val)])

\* Selectable::select_all
select_all(E) ==
    IF E \notin dbTables THEN DbErr("SqliteFailure")
    ELSE LET rows == RowsInOrder(dbRows[E], DOMAIN dbRows[E])
             decode(row) ==
                 LET t == TryFromRow(E, row)
                 IN  IF t.ok THEN [ok |-> TRUE, val |-> deserialize_sql(E, t.val)]
                     ELSE [ok |-> FALSE, val |-> NoOutput]
         IN  DbOk(FilterOk([i \in 1..Len(rows) |-> decode(rows[i])]))

\* the rows a statement ending in ORDER BY "id" <order> LIMIT <limit>
\* OFFSET <offset> returns
Reverse(s) == [i \in 1..Len(s) |-> s[Len(s) + 1 - i]]

OrderedPage(rows, p) ==
    LET ordered == IF p.order = "Ascending" THEN rows ELSE Reverse(rows)
        first == p.offset + 1
        last == IF p.offset + p.limit < Len(rows) THEN p.offset + p.limit ELSE Len(rows)
    IN  IF first > Len(rows) THEN <<>> ELSE SubSeq(ordered, first, last)

\* Selectable::select_all_sorted for a selection ordered by the identifier
select_all_sorted(E, selection) ==
    IF E \notin dbTables THEN DbErr("SqliteFailure")
    ELSE LET rows == OrderedPage(RowsInOrder(dbRows[E], DOMAIN dbRows[E]), selection)
             decode(row) ==
                 LET t == TryFromRow(E, row)
                 IN  IF t.ok THEN [ok |-> TRUE, val |-> deserialize_sql(E, t.val)]
                     ELSE [ok |-> FALSE, val |-> NoOutput]
         IN  DbOk(FilterOk([i \in 1..Len(rows) |-> decode(rows[i])]))

\* a value no selected type decodes
Junk == Val("blob", 0, "junk")

\* the row of the first sample value with one column overwritten
MalformedRow(E, column, rowid) ==
    [StoredRow(E, serialize_sql(E, EntityValue(E, 1)), rowid) EXCEPT ![column] = Junk]

\* another program writes a row to the database file: SQLite stores a value
\* of any type in a column of any declared type
ExternalWrite(E, column) ==
    /\ E \in dbTables
    /\ TotalRows < MaxRows
    /\ dbRows' = [dbRows EXCEPT ![E] =
                      (NewRowid(@) :> MalformedRow(E, column, NewRowid(@))) @@ @]
    /\ dbLast' = [op |-> "external", entity |-> E, column |-> column]
    /\ UNCHANGED <<dbFocus, dbTables, dbFk, dbLastRowid, dbInserted, dbCreated>>

\* the handler add: insert, answered with Created or with the error
HttpAdd(E, v) ==
    LET r == ExecuteInsert(E, v)
        res == IF r.err = "none" THEN DbOk(PrimaryKeyFrom(E, r.rowid)) ELSE DbErr(r.err)
    IN  /\ TotalRows < MaxRows
        /\ IF r.err = "none"
           THEN /\ dbRows' = [dbRows EXCEPT ![E] = (r.rowid :> r.row) @@ @]
                /\ dbLastRowid' = r.rowid
                /\ dbInserted' = dbInserted \cup
                       {[table |-> E, identifier |-> PrimaryKeyFrom(E, r.rowid), value |-> v]}
           ELSE UNCHANGED <<dbRows, dbLastRowid, dbInserted>>
        /\ dbLast' = [op |-> "add", entity |-> E, value |-> v, res |-> res,
                      error |-> IF res.ok THEN AppError("none", "none") ELSE ErrorFrom(res.err),
                      status |-> Respond(res, "Created")]
        /\ UNCHANGED <<dbFocus, dbTables, dbFk, dbCreated>>

\* the handler get_by_id: try_select, None answered with Error::NotFound
HttpGetById(E, id) ==
    LET res == Optional(QueryRow(E, id))
        error == IF ~res.ok THEN ErrorFrom(res.err)
                 ELSE IF res.val = NoOutput THEN NotFound ELSE AppError("none", "none")
    IN  /\ dbLast' = [op |-> "get_by_id", entity |-> E, index |-> id, res |-> res,
                      error |-> error,
                      status |-> IF error.kind = "none" THEN "Ok" ELSE respond_to(error)]
        /\ UNCHANGED <<dbFocus, dbTables, dbRows, dbFk, dbLastRowid, dbInserted, dbCreated>>

\* Selectable::select_all called on the connection
SelectAll(E) ==
    /\ dbLast' = [op |-> "select_all", entity |-> E, res |-> select_all(E)]
    /\ UNCHANGED <<dbFocus, dbTables, dbRows, dbFk, dbLastRowid, dbInserted, dbCreated>>

\* the handler get_all answering JSON: the pagination is made of the
\* parameters of the request and the default column
HttpGetAll(E, limit, offset, order) ==
    LET pagination == [entity |-> E, offset |-> offset, limit |-> limit, order |-> order,
                       column |-> 0]
        res == select_all_sorted(E, pagination)
    IN  /\ dbLast' = [op |-> "get_all", entity |-> E, page |-> pagination, res |-> res,
                      error |-> IF res.ok THEN AppError("none", "none") ELSE ErrorFrom(res.err),
                      status |-> Respond(res, "Ok")]
        /\ UNCHANGED <<dbFocus, dbTables, dbRows, dbFk, dbLastRowid, dbInserted, dbCreated>>

\* the offsets of the listing requests, which ask for one row at a time
ListOffsets == {0, 1}

\* the requests to the entity the run is about, the rows its keys refer to,
\* and the writes of another program to its table
HttpNext ==
    \/ dbFocus \in Creatable /\ dbTables = {} /\ CreateTable(dbFocus)
    \/ \E E \in Populated(dbFocus) : \E i \in Variants(E) : HttpAdd(E, EntityValue(E, i))
    \/ \E column \in FieldNames(dbFocus) : ExternalWrite(dbFocus, column)
    \/ \E k \in 1..(MaxRows + 1) : Select(dbFocus, PrimaryKeyFrom(dbFocus, k))
    \/ \E k \in 1..(MaxRows + 1) : HttpGetById(dbFocus, k)
    \/ SelectAll(dbFocus)
    \/ \E offset \in ListOffsets, order \in Orders :
            HttpGetAll(dbFocus, LimitFrom(1), offset, order)

(***************************************************************************)
(* Properties of the errors at the HTTP boundary.                          *)
(***************************************************************************)
\* a select by an identifier that no row of the existing table has
NoRowMatches ==
    /\ dbLast.op \in {"select", "get_by_id"}
    /\ dbLast.entity \in dbTables
    /\ dbLast.index \notin DOMAIN dbRows[dbLast.entity]

\* C17: for select with a typed key and for try_select with a raw index, a
\* select no row matches gives a "not found" outcome that differs from a
\* store error, and the HTTP boundary answers it with NotFound.
C17_NotFound ==
    NoRowMatches =>
        IF dbLast.op = "get_by_id"
        THEN dbLast.res = DbOk(NoOutput) /\ dbLast.status = "NotFound"
        ELSE /\ ~dbLast.res.ok /\ dbLast.res.err = "QueryReturnedNoRows"
             /\ Respond(dbLast.res, "Ok") = "NotFound"

\* the identifiers of the rows of a table that decode
DecodableIds(E) == {k \in DOMAIN dbRows[E] : TryFromRow(E, dbRows[E][k]).ok}

\* the identifiers of the rows a page of the table ordered by id holds
PageIds(E, p) ==
    {k \in DOMAIN dbRows[E] :
        LET before == Cardinality({j \in DOMAIN dbRows[E] :
                                      IF p.order = "Ascending" THEN j < k ELSE j > k})
        IN  p.offset <= before /\ before < p.offset + p.limit}

\* the list holds the decoded rows with the identifiers ids, each once, in
\* ascending or descending order of the identifier
ListsExactly(list, E, ids, order) ==
    /\ {list[i].identifier.id : i \in 1..Len(list)} = ids
    /\ \A i, j \in 1..Len(list) :
           i < j => IF order = "Ascending" THEN list[i].identifier.id < list[j].identifier.id
                    ELSE list[i].identifier.id > list[j].identifier.id
    /\ \A i \in 1..Len(list) : DbOk(list[i]) = QueryRow(E, list[i].identifier.id)

\* C18: select_all and select_all_sorted never fail because a row cannot
\* be decoded: the result is exactly the rows that decode, in the order the
\* store returned them, and every other row is left out without an error.
C18_SkipsUndecodable ==
    /\ (dbLast.op = "select_all" /\ dbLast.entity \in dbTables)
          => /\ dbLast.res.ok
             /\ ListsExactly(dbLast.res.val, dbLast.entity, DecodableIds(dbLast.entity),
                             "Ascending")
    /\ (dbLast.op = "get_all" /\ dbLast.entity \in dbTables)
          => /\ dbLast.res.ok /\ dbLast.status = "Ok"
             /\ ListsExactly(dbLast.res.val, dbLast.entity,
                             DecodableIds(dbLast.entity) \cap PageIds(dbLast.entity, dbLast.page),
                             dbLast.page.order)

\* a listing of a table whose first row does not decode and whose second
\* row does
C18_Witness ==
    /\ dbLast.op = "select_all"
    /\ DOMAIN dbRows[dbLast.entity] = {1, 2}
    /\ DecodableIds(dbLast.entity) = {2}
    /\ Len(dbLast.res.val) = 1

\* a handler left with an error of the database
StoreError == dbLast.op \in {"add", "get_by_id", "get_all"} /\ ~dbLast.res.ok

\* C19: a store error becomes ConstraintViolation, answered with
\* BadRequest, exactly when the SQLite error code is a constraint violation,
\* and DatabaseError, answered with InternalServerError, otherwise.
C19_Classified ==
    StoreError =>
        IF RusqliteError(dbLast.res.err).code = "ConstraintViolation"
        THEN dbLast.error.kind = "ConstraintViolation" /\ dbLast.status = "BadRequest"
        ELSE /\ dbLast.error = AppError("DatabaseError", dbLast.res.err)
             /\ dbLast.status = "InternalServerError"

\* a rejected foreign key answered with BadRequest
C19_Witness ==
    /\ StoreError /\ dbLast.op = "add"
    /\ dbLast.res.err = "ConstraintViolation"
    /\ dbLast.status = "BadRequest"

\* the value has a key to a row that does not exist
Dangling(E, v) ==
    \E f \in FieldNames(E) :
        /\ FieldType(E, f).base = "PrimaryKey"
        /\ v[f] # NoneVal
        /\ v[f].i \notin DOMAIN dbRows[FieldType(E, f).ref]

\* every field of the value converts to a parameter of the statement
Storable(E, v) == \A i \in 1..Len(Fields(E)) : serialize_sql(E, v)[i].ok

\* C20: on a connection that enforces foreign keys, inserting a value of
\* User, Document, Account or Entry with a key to a row that does not exist
\* fails, and the failure is a constraint violation.
C20_DanglingRejected ==
    [][(/\ dbLast'.op = "add" /\ dbFk
        /\ Storable(dbLast'.entity, dbLast'.value)
        /\ Dangling(dbLast'.entity, dbLast'.value))
          => (~dbLast'.res.ok /\ dbLast'.error.kind = "ConstraintViolation")]_dbVars

(***************************************************************************)
(* Amount: money as a count of minor units, its text form and its parser.  *)
(***************************************************************************)
\* the amounts displayed lie between -MaxAmount and MaxAmount minor units
MaxAmount == 250

\* i64 / i64 and i64 % i64: the quotient truncated towards zero and the
\* remainder with the sign of the dividend
TruncDiv(a, b) == IF a >= 0 THEN a \div b ELSE -((-a) \div b)

TruncRem(a, b) == a - b * TruncDiv(a, b)

\* {:0>2}: the text right-aligned in a field of two, filled with "0"
PadLeft2(s) == IF Len(s) >= 2 THEN s ELSE SubSeq(<<"0", "0">>, 1, 2 - Len(s)) \o s

\* impl Display for Amount: write!(f, "{}.{:0>2}", self.0 / 100, self.0 % 100)
Amount_to_string(a) ==
    IntToStr(TruncDiv(a, 100)) \o <<".">> \o PadLeft2(IntToStr(TruncRem(a, 100)))

\* str::split(|c| c == ',' || c == '.')
RECURSIVE SplitAmong(_, _, _)
SplitAmong(s, seps, cur) ==
    IF s = <<>> THEN <<cur>>
    ELSE IF s[1] \in seps THEN <<cur>> \o SplitAmong(Tail(s), seps, <<>>)
    ELSE SplitAmong(Tail(s), seps, Append(cur, s[1]))

DecimalSeparators == {",", "."}

AmountOk(a) == [ok |-> TRUE, val |-> a, err |-> "none"]

AmountErr(e) == [ok |-> FALSE, val |-> 0, err |-> e]

\* Amount::new
Amount_new(integer_part, fractional_part) ==
    IF ~(0 <= fractional_part /\ fractional_part < 100) THEN AmountErr("FractionTooLarge")
    ELSE AmountOk(integer_part * 100 + fractional_part)

\* impl From<i64> for Amount
Amount_from(value) == value * 100

\* impl FromStr for Amount
Amount_from_str(s) ==
    LET components == SplitAmong(s, DecimalSeparators, <<>>)
    IN  IF Len(components) > 2 THEN AmountErr("DecimalSeparatorIncluded")
        ELSE LET integer_part == ParseI64(components[1])
             IN  IF ~integer_part.ok THEN AmountErr("InvalidNumber")
                 ELSE IF Len(components) = 2
                 THEN LET fractional_part == ParseI64(components[2])
                      IN  IF ~fractional_part.ok THEN AmountErr("InvalidNumber")
                          ELSE Amount_new(integer_part.val, fractional_part.val)
                 ELSE AmountOk(Amount_from(integer_part.val))

\* the amounts displayed
Amounts == (-MaxAmount..MaxAmount) \cup {12345, -12345, 12300}

\* the integer parts and the fractions of the texts parsed
IntegerTexts ==
    {<<>>, <<"0">>, <<"1">>, <<"1", "2">>, <<"1", "2", "3">>, <<"-", "1">>, <<"-", "0">>,
     <<"+", "1">>, <<"x">>}

FractionTexts ==
    {<<>>, <<"0">>, <<"5">>, <<"0", "5">>, <<"4", "5">>, <<"0", "4", "5">>, <<"3", "4", "5">>,
     <<"4", "5", "6">>, <<"0", "0", "0">>, <<"1", "0", "0">>, <<"-", "5">>, <<"+", "5">>,
     <<"x">>}

AmountTexts ==
    IntegerTexts
    \cup {i \o <<sep>> \o f : i \in IntegerTexts, sep \in DecimalSeparators, f \in FractionTexts}
    \cup {<<"1", "0", "0", ".", "0", "0", "0", ",", "3", "4", "5">>,
          <<"1", ".", "2", ".", "3">>, <<"1", ",", ",", "2">>, <<"1", ".", "0", "4", "5", ".">>}

NoAmount == [some |-> FALSE, val |-> 0]

SomeAmount(a) == [some |-> TRUE, val |-> a]

NotParsed == AmountErr("not parsed")

VARIABLES
    amt,     \* the amount whose text amText is, if it was displayed
    amText,  \* the text at hand
    amRes    \* the result of parsing amText, NotParsed before

amVars == <<amt, amText, amRes>>

AmountInit == amt = NoAmount /\ amText = <<"0">> /\ amRes = NotParsed

\* amount.to_string()
AmountDisplay(a) ==
    /\ amt' = SomeAmount(a)
    /\ amText' = Amount_to_string(a)
    /\ amRes' = NotParsed

\* a text arrives from a form or a JSON body
AmountInput(s) ==
    /\ amt' = NoAmount
    /\ amText' = s
    /\ amRes' = NotParsed

\* text.parse::<Amount>()
AmountParse ==
    /\ amRes = NotParsed
    /\ amRes' = Amount_from_str(amText)
    /\ UNCHANGED <<amt, amText>>

AmountNext ==
    \/ \E a \in Amounts : AmountDisplay(a)
    \/ \E s \in AmountTexts : AmountInput(s)
    \/ AmountParse

(***************************************************************************)
(* Properties of Amount.                                                   *)
(***************************************************************************)
\* C21: for every Amount a, positive, zero or negative,
\* Amount::from_str(a.to_string()) returns Ok(a).
C21_AmountRoundTrip ==
    (amt.some /\ amRes # NotParsed) => amRes = AmountOk(amt.val)

AllDigits(s) == s # <<>> /\ \A i \in 1..Len(s) : IsDigit(s[i])

\* an optional minus sign, digits, a dot and exactly two digits
IsCanonicalAmount(s) ==
    LET body == IF s # <<>> /\ s[1] = "-" THEN Tail(s) ELSE s
    IN  /\ Len(body) >= 4
        /\ body[Len(body) - 2] = "."
        /\ AllDigits(SubSeq(body, 1, Len(body) - 3))
        /\ AllDigits(SubSeq(body, Len(body) - 1, Len(body)))

\* C22: the text of every Amount, also of a negative one, is an optional
\* leading minus sign, the integer part, a dot and exactly two decimal
\* digits with no sign inside the fraction.
C22_TwoDigitFraction == amt.some => IsCanonicalAmount(amText)

SeparatorPositions(s) == {i \in 1..Len(s) : s[i] \in DecimalSeparators}

\* the text after the only separator
FractionOf(s) == SubSeq(s, 1 + CHOOSE i \in SeparatorPositions(s) : TRUE, Len(s))

IntegerOf(s) == SubSeq(s, 1, (CHOOSE i \in SeparatorPositions(s) : TRUE) - 1)

\* C23: from_str rejects every string with more than two digits after the
\* decimal separator with FractionTooLarge, also a fraction with leading
\* zeros, and every string with more than one separator with
\* DecimalSeparatorIncluded.
C23_FormatErrors ==
    amRes # NotParsed =>
        /\ Cardinality(SeparatorPositions(amText)) > 1
              => amRes = AmountErr("DecimalSeparatorIncluded")
        /\ (/\ Cardinality(SeparatorPositions(amText)) = 1
            /\ ParseI64(IntegerOf(amText)).ok
            /\ AllDigits(FractionOf(amText)) /\ Len(FractionOf(amText)) > 2)
              => amRes = AmountErr("FractionTooLarge")

\* the minor units of the decimal number: a sign, an integer part and one
\* or two fraction digits
DecimalValue(s) ==
    LET neg == s[1] = "-"
        i == DigitsToNat(IF neg THEN Tail(IntegerOf(s)) ELSE IntegerOf(s), 0)
        f == FractionOf(s)
        minor == i * 100 + (IF Len(f) = 1 THEN 10 * DigitsToNat(f, 0) ELSE DigitsToNat(f, 0))
    IN  IF neg THEN -minor ELSE minor

IsDecimal(s) ==
    /\ Cardinality(SeparatorPositions(s)) = 1
    /\ AllDigits(IF s[1] = "-" THEN Tail(IntegerOf(s)) ELSE IntegerOf(s))
    /\ AllDigits(FractionOf(s)) /\ Len(FractionOf(s)) \in {1, 2}

\* C29: for a string of an optional minus sign, an integer part and one or
\* two fraction digits, from_str returns the minor-unit count of that
\* decimal number: "i.d" is i * 100 + d * 10 and "-i.ff" is -(i * 100 + ff).
C29_DecimalValue ==
    (amRes # NotParsed /\ IsDecimal(amText)) => amRes = AmountOk(DecimalValue(amText))


\* C30: from_str returns Ok only for a text that is an integer, or that is
\* a slash, the table name of the target type, a slash and an integer, with
\* nothing before the first slash; every other text is rejected
C30_CanonicalOrBare ==
    (kpc = "parsed" /\ parsed.op = "from_str" /\ parsed.res.ok) =>
        \/ ParseI64(text).ok
        \/ LET parts == Split(text, "/")
           IN  /\ Len(parts) = 3
               /\ parts[1] = <<>>
               /\ parts[2] = TABLE_NAME(parsed.target)
               /\ ParseI64(parts[3]).ok

(***************************************************************************)
(* Opening a database: Database::open, Database::in_memory and             *)
(* prepare_connection (src/backend/database/sqlite.rs).  The store keeps   *)
(* the schema version (user_version) the migrations were applied up to;    *)
(* a file may have been written by another release of the program.         *)
(***************************************************************************)

\* how often a store is opened in one run
MaxOpens == 2

\* get_migrations: the bundles, in their order
MIGRATIONS == <<"persons_users_documents", "accounting">>

OpenKinds == {"open", "in_memory"}

\* the schema versions a file can carry: none to all bundles applied, or one
\* more than this release knows
FileVersions == 0..(Len(MIGRATIONS) + 1)

Step(name, n) == [step |-> name, n |-> n]

NoOutcome == [kind |-> "none", failed |-> "none"]

\* Ok(database): the handle reaches the caller
Handle == [kind |-> "Ok", failed |-> "none"]

\* Err(Error(rusqlite::Error)) after the step that failed
OpenErr(step) == [kind |-> "Err", failed |-> step]

\* panic!("Unexpected error in running the migration")
OpenPanic(step) == [kind |-> "panic", failed |-> step]

VARIABLES opFile, opStore, opPc, opTrace, opResult, opOpens

opVars == <<opFile, opStore, opPc, opTrace, opResult, opOpens>>

\* a connection's state: schema version, journal mode, foreign-key flag
Store(version, journal, fk) == [version |-> version, journal |-> journal, foreign_keys |-> fk]

OpenInit ==
    /\ opFile = Store(0, "delete", FALSE)
    /\ opStore = Store(0, "delete", FALSE)
    /\ opPc = "idle"
    /\ opTrace = <<>>
    /\ opResult = NoOutcome
    /\ opOpens = 0

\* Connection::open(path) / Connection::open_in_memory(): a new connection
\* has foreign keys off; a file keeps its schema version and journal mode
OpenConnection(kind, ok) ==
    /\ opPc = "idle"
    /\ opOpens < MaxOpens
    /\ opOpens' = opOpens + 1
    /\ opTrace' = <<>>
    /\ IF ok
       THEN /\ opPc' = "to_latest"
            /\ opResult' = NoOutcome
            /\ opStore' = IF kind = "open"
                          THEN [opFile EXCEPT !.foreign_keys = FALSE]
                          ELSE Store(0, "memory", FALSE)
       ELSE /\ opPc' = "returned"
            /\ opResult' = OpenErr("connect")
            /\ opStore' = opStore
    /\ UNCHANGED opFile

\* Migrations::to_latest: a store ahead of the known bundles is an error of
\* the migration library that is no rusqlite error, and map_err panics;
\* otherwise the next pending bundle runs in its own transaction, and when
\* none is pending the pragmas follow
ToLatest(ok) ==
    /\ opPc = "to_latest"
    /\ IF opStore.version > Len(MIGRATIONS)
       THEN /\ opPc' = "returned"
            /\ opResult' = OpenPanic("migrations")
            /\ UNCHANGED <<opStore, opTrace>>
       ELSE IF opStore.version = Len(MIGRATIONS)
       THEN /\ opPc' = "journal_mode"
            /\ UNCHANGED <<opStore, opTrace, opResult>>
       ELSE IF ok
       THEN /\ opStore' = [opStore EXCEPT !.version = @ + 1]
            /\ opTrace' = Append(opTrace, Step("migration", opStore.version + 1))
            /\ UNCHANGED <<opPc, opResult>>
       ELSE /\ opPc' = "returned"
            /\ opResult' = OpenErr("migrations")
            /\ UNCHANGED <<opStore, opTrace>>
    /\ UNCHANGED <<opFile, opOpens>>

\* pragma_update(None, "journal_mode", "WAL")?: an in-memory store keeps
\* its journal mode
JournalMode(ok) ==
    /\ opPc = "journal_mode"
    /\ IF ok
       THEN /\ opStore' = [opStore EXCEPT !.journal = IF @ = "memory" THEN @ ELSE "wal"]
            /\ opTrace' = Append(opTrace, Step("journal_mode", 0))
            /\ opPc' = "foreign_keys"
            /\ UNCHANGED opResult
       ELSE /\ opPc' = "returned"
            /\ opResult' = OpenErr("journal_mode")
            /\ UNCHANGED <<opStore, opTrace>>
    /\ UNCHANGED <<opFile, opOpens>>

\* pragma_update(None, "foreign_keys", "ON"), whose result is the result of
\* prepare_connection; Ok(database) follows
ForeignKeysOn(ok) ==
    /\ opPc = "foreign_keys"
    /\ opPc' = "returned"
    /\ IF ok
       THEN /\ opStore' = [opStore EXCEPT !.foreign_keys = TRUE]
            /\ opTrace' = Append(opTrace, Step("foreign_keys", 0))
            /\ opResult' = Handle
       ELSE /\ opResult' = OpenErr("foreign_keys")
            /\ UNCHANGED <<opStore, opTrace>>
    /\ UNCHANGED <<opFile, opOpens>>

\* the connection is dropped (the handle, or the failed connection inside
\* open); what was committed to a file stays in it
DropConnection ==
    /\ opPc = "returned"
    /\ opPc' = "idle"
    /\ opFile' = IF opStore.journal = "memory" THEN opFile
                 ELSE [opStore EXCEPT !.foreign_keys = FALSE]
    /\ UNCHANGED <<opStore, opTrace, opResult, opOpens>>

OpenNext ==
    \/ \E kind \in OpenKinds, ok \in BOOLEAN : OpenConnection(kind, ok)
    \/ \E ok \in BOOLEAN : ToLatest(ok)
    \/ \E ok \in BOOLEAN : JournalMode(ok)
    \/ \E ok \in BOOLEAN : ForeignKeysOn(ok)
    \/ DropConnection

\* the steps of a complete preparation: the pending bundles in ascending
\* order, then the journal mode, then the foreign keys
RECURSIVE PendingFrom(_)
PendingFrom(version) ==
    IF version >= Len(MIGRATIONS) THEN <<>>
    ELSE <<Step("migration", version + 1)>> \o PendingFrom(version + 1)

IsPrefix(s, t) == Len(s) <= Len(t) /\ SubSeq(t, 1, Len(s)) = s

OrderedSteps(trace) ==
    \E from \in FileVersions :
        IsPrefix(trace, PendingFrom(from) \o <<Step("journal_mode", 0), Step("foreign_keys", 0)>>)

\* C24: the steps of an open are applied in the order migrations, journal
\* mode, foreign keys; a handle is returned only after all of them; and an
\* open in which a step failed has returned an error
C24_OpenSequence ==
    /\ OrderedSteps(opTrace)
    /\ opResult = Handle =>
          /\ Len(opTrace) >= 2
          /\ opTrace[Len(opTrace)] = Step("foreign_keys", 0)
          /\ opTrace[Len(opTrace) - 1] = Step("journal_mode", 0)
          /\ opStore.version = Len(MIGRATIONS)
          /\ opStore.foreign_keys
    /\ (opPc = "returned" /\ opResult # Handle) => opResult.kind = "Err"


(***************************************************************************)
(* The public output of a select (Selectable::Output): user::Metadata and  *)
(* document::Metadata.  Rows are stored that differ in nothing but the     *)
(* password hash, or the document's bytes, and are selected.               *)
(***************************************************************************)

\* the entity types with a field that is not for the public
ProtectedField(E) ==
    CASE E = "User" -> "password_hash"
      [] E = "Document" -> "document"

Protecting == {"User", "Document"}

\* values of an entity type that agree in every field but the protected one
ProtectedVariants(E) ==
    IF E = "User"
    THEN {[EntityValue("User", 2) EXCEPT !.password_hash = Sample(Ty("PasswordHash"), j)] : j \in 1..2}
    ELSE IF E = "Document"
    THEN {[EntityValue("Document", 1) EXCEPT !.document = Sample(Ty("Vec<u8>"), j)] : j \in 1..2}
    ELSE {}

SecretNext ==
    \/ dbFocus \in Creatable /\ dbTables = {} /\ CreateTable(dbFocus)
    \/ \E E \in Populated(dbFocus) : \E i \in Variants(E) : Insert(E, EntityValue(E, i))
    \/ \E v \in ProtectedVariants(dbFocus) : Insert(dbFocus, v)
    \/ \E k \in 1..(MaxRows + 1) : Select(dbFocus, PrimaryKeyFrom(dbFocus, k))

\* two rows of a table that differ in the protected column and nowhere else
\* but in the identifier
DifferOnlyInProtected(E, k1, k2) ==
    /\ k1 # k2
    /\ dbRows[E][k1][ProtectedField(E)] # dbRows[E][k2][ProtectedField(E)]
    /\ \A c \in FieldNames(E) \ {ProtectedField(E)} : dbRows[E][k1][c] = dbRows[E][k2][c]

\* C25: the output of a select of a User or a Document has no field for the
\* password hash or the document's bytes, and the outputs of two rows that
\* differ in that column alone are equal apart from the identifier
C25_ProtectedFields ==
    /\ (dbLast.op = "select" /\ dbLast.entity \in Protecting /\ dbLast.res.ok) =>
           ProtectedField(dbLast.entity) \notin DOMAIN dbLast.res.val.value
    /\ \A E \in Protecting \cap dbTables : \A k1, k2 \in DOMAIN dbRows[E] :
           (DifferOnlyInProtected(E, k1, k2) /\ QueryRow(E, k1).ok) =>
               /\ QueryRow(E, k2).ok
               /\ QueryRow(E, k1).val.value = QueryRow(E, k2).val.value

C25_Witness ==
    /\ dbLast.op = "select" /\ dbLast.entity \in Protecting /\ dbLast.res.ok
    /\ \E k \in DOMAIN dbRows[dbLast.entity] :
           k # dbLast.index /\ DifferOnlyInProtected(dbLast.entity, dbLast.index, k)


(***************************************************************************)
(* Rendering the rows of a table: RenderableDatabaseEntry and its          *)
(* generate_table_row implementations (src/frontend/table_renderer.rs).    *)
(* A cell is text: a sequence of pieces of text.                           *)
(***************************************************************************)

\* the entity types whose rows show a foreign key by its label
Rendering == {"Document", "User", "Account"}

\* load_required_foreign_keys: the table whose labels the rows need
RequiredForeignKeys(E) == IF E = "Account" THEN "Category" ELSE "Person"

\* the columns of an output that hold a foreign key shown by its label
LabelledColumns(E) ==
    CASE E = "Document" -> {"from_person", "to_person"}
      [] E = "User" -> {"related_to"}
      [] E = "Account" -> {"category"}

\* the key a decoded column holds
KeyOf(v) == PrimaryKeyFrom(v.s, v.i)

\* foreign_keys.get(key).map(String::from).unwrap_or_else(|| other.to_string())
LabelOrElse(cache, v, other) ==
    LET l == get(cache, v.s, KeyOf(v))
    IN  IF l.some THEN l.label ELSE to_string(KeyOf(other))

\* Option<key>.and_then(|value| foreign_keys.get(value).map(String::from)).unwrap_or_default()
LabelOrDefault(cache, v) ==
    IF v = NoneVal THEN <<>>
    ELSE LET l == get(cache, v.s, KeyOf(v))
         IN  IF l.some THEN l.label ELSE <<>>

\* generate_table_row of Document, User and Account
generate_table_row(E, entry, cache) ==
    CASE E = "Document" ->
           [File |-> <<"<a href=\"">> \o to_string(entry.identifier) \o <<"/pdf\">PDF</a>">>,
            Recieved |-> <<entry.value.recieved.s>>,
            Processed |-> <<entry.value.processed.s>>,
            from_person |-> LabelOrElse(cache, entry.value.from_person, entry.value.from_person),
            to_person |-> LabelOrElse(cache, entry.value.to_person, entry.value.from_person),
            Description |-> <<entry.value.description.s>>]
      [] E = "User" ->
           [Name |-> <<entry.value.username.s>>,
            Creation_date |-> <<entry.value.creation_date.s>>,
            related_to |-> LabelOrDefault(cache, entry.value.related_to)]
      [] E = "Account" ->
           [Code |-> IntToStr(entry.value.code.i),
            category |-> LabelOrElse(cache, entry.value.category, entry.value.category),
            Description |-> <<entry.value.description.s>>]

\* values whose foreign keys differ from each other
RenderedValues(E) ==
    IF E = "Document"
    THEN {[EntityValue("Document", 1) EXCEPT !.to_person = Sample(Pk("Person"), 2)],
          [EntityValue("Document", 2) EXCEPT !.to_person = Sample(Pk("Person"), 1)]}
    ELSE {}

VARIABLES rnLast   \* the outcome of the last prepare_rendering_all

rnVars == <<rnLast>>

Rendered(E, res, entries, rows) == [entity |-> E, res |-> res, entries |-> entries, rows |-> rows]

RenderInit == rnLast = Rendered("none", DbOk(NoOutput), <<>>, <<>>)

\* RenderableDatabaseEntry::prepare_rendering_all with the default
\* pagination: a new storage, the labels the rows need, the page of the
\* table, and a row of cells for each entry
prepare_rendering_all(E) ==
    LET loaded == add(ForeignKeyStorage_from, RequiredForeignKeys(E))
        page == select_all_sorted(E, Pagination_default(E))
    IN  /\ fkCache' = loaded.cache
        /\ fkQueries' = [[T \in Referenceables |-> <<>>] EXCEPT ![RequiredForeignKeys(E)] = <<loaded.query>>]
        /\ fkLast' = FkOp("add", RequiredForeignKeys(E), 0, loaded.res, TRUE, NoLabel)
        /\ rnLast' =
              IF ~loaded.res.ok THEN Rendered(E, loaded.res, <<>>, <<>>)
              ELSE IF ~page.ok THEN Rendered(E, page, <<>>, <<>>)
              ELSE Rendered(E, DbOk(NoOutput), page.val,
                            [i \in 1..Len(page.val) |->
                                generate_table_row(E, page.val[i], loaded.cache)])
        /\ UNCHANGED dbVars

RenderNext ==
    \/ dbFocus \in Creatable /\ dbTables = {} /\ CreateTable(dbFocus) /\ UNCHANGED <<fkVars, rnVars>>
    \/ \E E \in Populated(dbFocus) : \E i \in Variants(E) :
            Insert(E, EntityValue(E, i)) /\ UNCHANGED <<fkVars, rnVars>>
    \/ \E v \in RenderedValues(dbFocus) : Insert(dbFocus, v) /\ UNCHANGED <<fkVars, rnVars>>
    \/ prepare_rendering_all(dbFocus)

\* a rendered entry's foreign key for which the storage has no label
Unlabelled(i, c) ==
    /\ i \in 1..Len(rnLast.entries)
    /\ c \in LabelledColumns(rnLast.entity)
    /\ rnLast.entries[i].value[c] # NoneVal
    /\ ~get(fkCache, rnLast.entries[i].value[c].s, KeyOf(rnLast.entries[i].value[c])).some

\* C26: in a rendered row of a Document, a User or an Account, the cell of
\* a foreign key for which get returns no label shows the canonical
\* identifier of that foreign key
C26_FallbackToIdentifier ==
    rnLast.entity \in Rendering =>
        \A i \in 1..Len(rnLast.entries) : \A c \in LabelledColumns(rnLast.entity) :
            Unlabelled(i, c) =>
                rnLast.rows[i][c] = to_string(KeyOf(rnLast.entries[i].value[c]))


(***************************************************************************)
(* Handlers that insert through the shared Config (src/config.rs): the     *)
(* Database sits in a Mutex, Config::database hands out its guard, and     *)
(* Insertable::insert runs execute and last_insert_rowid on the            *)
(* connection behind the guard.                                            *)
(***************************************************************************)

\* the handlers the server runs at a time
NumHandlers == 2

\* the requests served in one run
MaxRequests == 3

Handlers == 1..NumHandlers

\* the tables the requests insert into
SharedTables == {"Person", "Group"}

Unlocked == 0

VARIABLES
    mxHolder,     \* the handler that holds the guard of Config::database, or Unlocked
    hPc,          \* per handler: "idle", "guard", "executed", "returned"
    hRequest,     \* per handler: the number and the table of the request it serves
    hResult,      \* per handler: what insert returned
    cnRows,       \* per table: the request that created each row, by rowid
    cnLastRowid,  \* the connection's last_insert_rowid
    cnRequests,   \* the requests started
    cnReturned    \* the identifiers the successful inserts returned, by request

ccVars == <<mxHolder, hPc, hRequest, hResult, cnRows, cnLastRowid, cnRequests, cnReturned>>

NoRequest == [serial |-> 0, table |-> "none"]

ConcInit ==
    /\ mxHolder = Unlocked
    /\ hPc = [h \in Handlers |-> "idle"]
    /\ hRequest = [h \in Handlers |-> NoRequest]
    /\ hResult = [h \in Handlers |-> DbErr("none")]
    /\ cnRows = [T \in SharedTables |-> <<>>]
    /\ cnLastRowid = 0
    /\ cnRequests = 0
    /\ cnReturned = <<>>

\* a lock that does not wait for the guard to be dropped
lock_NoWait(h) == TRUE

\* Mutex::lock: the caller blocks until no other holds the guard
lock(h) == mxHolder = Unlocked

\* a handler's `state.database()`: Config::database
Config_database(h, T) ==
    /\ hPc[h] = "idle"
    /\ cnRequests < MaxRequests
    /\ lock(h)
    /\ mxHolder' = h
    /\ cnRequests' = cnRequests + 1
    /\ hRequest' = [hRequest EXCEPT ![h] = [serial |-> cnRequests + 1, table |-> T]]
    /\ hPc' = [hPc EXCEPT ![h] = "guard"]
    /\ UNCHANGED <<hResult, cnRows, cnLastRowid, cnReturned>>

\* connection.execute(STATEMENT_INSERT, ..) inside insert: the statement
\* stores the row and sets the connection's last rowid, or fails and insert
\* returns the error
Connection_execute(h, ok) ==
    /\ hPc[h] = "guard"
    /\ IF ok
       THEN LET T == hRequest[h].table
                rowid == NewRowid(cnRows[T])
            IN  /\ cnRows' = [cnRows EXCEPT ![T] = (rowid :> hRequest[h].serial) @@ @]
                /\ cnLastRowid' = rowid
                /\ hPc' = [hPc EXCEPT ![h] = "executed"]
                /\ UNCHANGED hResult
       ELSE /\ hResult' = [hResult EXCEPT ![h] = DbErr("SqliteFailure")]
            /\ hPc' = [hPc EXCEPT ![h] = "returned"]
            /\ UNCHANGED <<cnRows, cnLastRowid>>
    /\ UNCHANGED <<mxHolder, hRequest, cnRequests, cnReturned>>

\* .map(|_| PrimaryKey::from(database.connection.last_insert_rowid()))
Connection_last_insert_rowid(h) ==
    /\ hPc[h] = "executed"
    /\ hResult' = [hResult EXCEPT ![h] = DbOk(PrimaryKeyFrom(hRequest[h].table, cnLastRowid))]
    /\ cnReturned' = Append(cnReturned,
                            [serial |-> hRequest[h].serial,
                             identifier |-> PrimaryKeyFrom(hRequest[h].table, cnLastRowid)])
    /\ hPc' = [hPc EXCEPT ![h] = "returned"]
    /\ UNCHANGED <<mxHolder, hRequest, cnRows, cnLastRowid, cnRequests>>

\* the end of the handler's statement drops the guard
DropGuard(h) ==
    /\ hPc[h] = "returned"
    /\ mxHolder' = IF mxHolder = h THEN Unlocked ELSE mxHolder
    /\ hPc' = [hPc EXCEPT ![h] = "idle"]
    /\ UNCHANGED <<hRequest, hResult, cnRows, cnLastRowid, cnRequests, cnReturned>>

ConcNext ==
    \/ \E h \in Handlers, T \in SharedTables : Config_database(h, T)
    \/ \E h \in Handlers, ok \in BOOLEAN : Connection_execute(h, ok)
    \/ \E h \in Handlers : Connection_last_insert_rowid(h)
    \/ \E h \in Handlers : DropGuard(h)

\* the handlers that are inside insert
Inserting == {h \in Handlers : hPc[h] # "idle"}

\* C27: at most one handler is inside insert at a time, and it holds the
\* guard; between its execute and its last_insert_rowid the connection's
\* last rowid is the rowid of the row it stored; every identifier a
\* successful insert returned names the row that insert created; and the
\* identifiers returned for one table are pairwise different
C27_ExclusiveInserts ==
    /\ Cardinality(Inserting) <= 1
    /\ \A h \in Inserting : mxHolder = h
    /\ \A h \in Handlers : hPc[h] = "executed" =>
           /\ cnLastRowid \in DOMAIN cnRows[hRequest[h].table]
           /\ cnRows[hRequest[h].table][cnLastRowid] = hRequest[h].serial
    /\ \A i \in 1..Len(cnReturned) :
           /\ cnReturned[i].identifier.id \in DOMAIN cnRows[cnReturned[i].identifier.table]
           /\ cnRows[cnReturned[i].identifier.table][cnReturned[i].identifier.id] =
                  cnReturned[i].serial
    /\ \A i, j \in 1..Len(cnReturned) :
           (i # j /\ cnReturned[i].identifier.table = cnReturned[j].identifier.table)
               => cnReturned[i].identifier.id # cnReturned[j].identifier.id

\* two inserts into one table returned, by different handlers, while the
\* other handler had a request of its own
C27_Witness ==
    /\ Len(cnReturned) >= 2
    /\ cnReturned[1].identifier.table = cnReturned[2].identifier.table
    /\ \E h1, h2 \in Handlers :
           /\ h1 # h2
           /\ hRequest[h1].serial = cnReturned[1].serial
           /\ hRequest[h2].serial = cnReturned[2].serial


(***************************************************************************)
(* Walking through the pages of a table: TableRenderer::generate_context   *)
(* offers next_url = pagination.next(rows.len()), and the reader follows   *)
(* it as long as there is one.                                             *)
(***************************************************************************)

\* the rows of the largest table walked through
MaxTable == 3

\* the offsets and the limit parameters a walk starts with
NavOffsets == {0, 1, 2, usize_MAX - 1}

NavLimits == {0, 1, 2, 3, 100, 101}

\* the rows a page of the table holds: LIMIT p.limit OFFSET p.offset on a
\* table of n rows
RowsReceived(n, p) ==
    IF ~UsizeLess(p.offset, n) THEN 0
    ELSE IF UsizeLess(n - p.offset, p.limit) THEN n - p.offset ELSE p.limit

VARIABLES
    nvTable,     \* the number of rows of the table, which does not change
    nvPg,        \* the Pagination of the page shown, NoPage before the first
    nvReceived,  \* the rows of the page shown
    nvEnd,       \* "None" once the page shown has no next_url, "panic" if next panicked
    nvOdd        \* whether the pages requested so far are odd in number

nvVars == <<nvTable, nvPg, nvReceived, nvEnd, nvOdd>>

NavInit ==
    /\ nvTable = 0
    /\ nvPg = NoPage
    /\ nvReceived = 0
    /\ nvEnd = "no"
    /\ nvOdd = FALSE

\* the page a descriptor leads to: its rows and its next_url
ShowPage(p, overflow_checks) ==
    LET received == RowsReceived(nvTable, p)
        res == next(p, received, overflow_checks)
    IN  /\ nvReceived' = received
        /\ nvEnd' = IF res = PageNone THEN "None" ELSE IF res = PagePanic THEN "panic" ELSE "no"
        /\ nvOdd' = ~nvOdd
        /\ UNCHANGED nvTable

\* get_all with the reader's offset and limit
NavStart(T, offset, value, order) ==
    /\ nvPg = NoPage
    /\ nvPg' = [Pagination_default(T) EXCEPT !.offset = offset, !.limit = LimitFrom(value),
                                              !.order = order]
    /\ \E overflow_checks \in BOOLEAN : ShowPage(nvPg', overflow_checks)

\* the reader follows next_url
NavFollow ==
    /\ nvPg # NoPage
    /\ nvEnd = "no"
    /\ \E overflow_checks \in BOOLEAN :
           LET res == next(nvPg, nvReceived, overflow_checks)
           IN  /\ nvPg' = res.page
               /\ ShowPage(res.page, overflow_checks)

NavNext ==
    \/ \E offset \in NavOffsets, value \in NavLimits, order \in Orders :
           NavStart("Person", offset, value, order)
    \/ NavFollow

\* C28: a walk that follows next(rows received) through a finite table
\* that does not change reaches a page without a next page, for every limit
\* from 0 to MAXIMUM and every descriptor it starts from
C28_NavigationTerminates == (nvPg # NoPage) ~> (nvEnd = "None")

vars == <<keyVars, dbVars, pageVars, fkVars, amVars, opVars, rnVars, ccVars, nvVars>>

Init == KeyInit /\ DbInit /\ PageInit /\ FkInit /\ AmountInit /\ OpenInit /\ RenderInit /\ ConcInit /\ NavInit

\* a plain connection on which nothing happens
DbQuiet == DbInit /\ dbFocus = "Person" /\ dbTables = {}

\* no pagination takes place
PageQuiet == PageInit /\ pgFocus = "Person"

InitKey == KeyInit /\ DbQuiet /\ PageQuiet /\ FkInit /\ AmountInit /\ OpenInit /\ RenderInit /\ ConcInit /\ NavInit

InitDb == KeyInit /\ DbInit /\ PageQuiet /\ FkInit /\ AmountInit /\ OpenInit /\ RenderInit /\ ConcInit /\ NavInit

InitPage == KeyInit /\ DbQuiet /\ PageInit /\ FkInit /\ AmountInit /\ OpenInit /\ RenderInit /\ ConcInit /\ NavInit

\* the forms rendered: one that lists the rows of one table, and one that
\* lists documents and the persons they name
RenderedForms == {"Person", "Document"}

InitFk == KeyInit /\ DbInit /\ PageQuiet /\ FkInit /\ dbFocus \in RenderedForms /\ AmountInit /\ OpenInit /\ RenderInit /\ ConcInit /\ NavInit

SpecKey == InitKey /\ [][KeyNext /\ UNCHANGED <<dbVars, pageVars, fkVars, amVars, opVars, rnVars, ccVars, nvVars>>]_vars

SpecDb == InitDb /\ [][DbNext /\ UNCHANGED <<keyVars, pageVars, fkVars, amVars, opVars, rnVars, ccVars, nvVars>>]_vars

SpecPage == InitPage /\ [][PageNext_ /\ UNCHANGED <<keyVars, dbVars, fkVars, amVars, opVars, rnVars, ccVars, nvVars>>]_vars

\* the requests are about an entity type with a table
InitHttp == KeyInit /\ DbInit /\ PageQuiet /\ FkInit /\ dbFocus \in Entities /\ AmountInit /\ OpenInit /\ RenderInit /\ ConcInit /\ NavInit

SpecFk == InitFk /\ [][FkNext /\ UNCHANGED <<keyVars, pageVars, amVars, opVars, rnVars, ccVars, nvVars>>]_vars

SpecHttp == InitHttp /\ [][HttpNext /\ UNCHANGED <<keyVars, pageVars, fkVars, amVars, opVars, rnVars, ccVars, nvVars>>]_vars

InitAmount == KeyInit /\ DbQuiet /\ PageQuiet /\ FkInit /\ AmountInit /\ OpenInit /\ RenderInit /\ ConcInit /\ NavInit

SpecAmount == InitAmount /\ [][AmountNext /\ UNCHANGED <<keyVars, dbVars, pageVars, fkVars, opVars, rnVars, ccVars, nvVars>>]_vars

\* a file as some release of the program left it
OpenFiles ==
    /\ opStore = Store(0, "delete", FALSE)
    /\ opPc = "idle" /\ opTrace = <<>> /\ opResult = NoOutcome /\ opOpens = 0
    /\ \E version \in FileVersions, journal \in {"delete", "wal"} :
           opFile = Store(version, journal, FALSE)

InitOpen == KeyInit /\ DbQuiet /\ PageQuiet /\ FkInit /\ AmountInit /\ OpenFiles /\ RenderInit /\ ConcInit /\ NavInit

SpecOpen == InitOpen /\ [][OpenNext /\ UNCHANGED <<keyVars, dbVars, pageVars, fkVars, amVars, rnVars, ccVars, nvVars>>]_vars

\* selects of the entity types with a protected field
InitSecret == KeyInit /\ DbInit /\ PageQuiet /\ FkInit /\ AmountInit /\ OpenInit /\ dbFocus \in Protecting /\ RenderInit /\ ConcInit /\ NavInit

SpecSecret == InitSecret /\ [][SecretNext /\ UNCHANGED <<keyVars, pageVars, fkVars, amVars, opVars, rnVars, ccVars, nvVars>>]_vars

\* the tables rendered with the labels of their foreign keys
InitRender == KeyInit /\ DbInit /\ PageQuiet /\ FkInit /\ AmountInit /\ OpenInit /\ RenderInit /\ dbFocus \in Rendering /\ ConcInit /\ NavInit

SpecRender == InitRender /\ [][RenderNext /\ UNCHANGED <<keyVars, pageVars, amVars, opVars, ccVars, nvVars>>]_vars

InitConc == KeyInit /\ DbQuiet /\ PageQuiet /\ FkInit /\ AmountInit /\ OpenInit /\ RenderInit /\ ConcInit /\ NavInit

SpecConc == InitConc /\ [][ConcNext /\ UNCHANGED <<keyVars, dbVars, pageVars, fkVars, amVars, opVars, rnVars, nvVars>>]_vars

\* a table of any size up to MaxTable
NavTables == nvTable \in 0..MaxTable /\ nvPg = NoPage /\ nvReceived = 0 /\ nvEnd = "no" /\ nvOdd = FALSE

InitNav == KeyInit /\ DbQuiet /\ PageQuiet /\ FkInit /\ AmountInit /\ OpenInit /\ RenderInit /\ ConcInit /\ NavTables

SpecNav == InitNav /\ [][NavNext /\ UNCHANGED <<keyVars, dbVars, pageVars, fkVars, amVars, opVars, rnVars, ccVars>>]_vars

\* the reader keeps following the link while there is one
SpecNavFair == SpecNav /\ WF_vars(NavFollow /\ UNCHANGED <<keyVars, dbVars, pageVars, fkVars, amVars, opVars, rnVars, ccVars>>)

====
